---- MODULE Spec2Model ----
(***************************************************************************)
(* Model of the faceting core of miratope-core (conc/faceting.rs) and of   *)
(* the generated-group iterator (group/gen_iter.rs).                       *)
(*                                                                         *)
(* Indices are 1-based here (Rust: 0-based); comparisons between indices   *)
(* are unaffected.  A facet of a hyperplane orbit is the list of its local *)
(* ridges (possible_facets[hp][f].1), a local ridge being a pair <<k, j>>: *)
(* faceting j of sub-hyperplane orbit k of that hyperplane.                *)
(***************************************************************************)
EXTENDS Integers, Sequences, FiniteSets, TLC

\* ---------------------------------------------------------------- bounds
MaxHp == 3          \* hyperplane orbits of one combination search
MaxFacets == 3      \* possible facets of one hyperplane orbit
MaxTotal == 3       \* possible facets of all hyperplane orbits together
MaxRidges == 2      \* local ridges of one facet
MaxOrbits == 2      \* ridge orbits
MaxCount == 2       \* orbit sizes (f_counts, ff_counts, ridge_counts)
MaxNoble == 2       \* the facet count asked of a noble faceting
MaxCap == 2         \* the cap max_per_hyperplane
MaxBuilt == 2       \* possible facets of the tables of the assembly runs
MaxTotalUnit == 5   \* possible facets of the tables with unit multiplicities
MaxVertices == 3    \* vertices of the polytope whose vertex orbits are matched
MaxRows == 3        \* rows of the vertex map
MaxEls == 2         \* elements of one rank of a sorted rank structure
MaxSubs == 2        \* subelements of one element
MaxSorts == 2       \* applications of element_sort_strong to one structure

VARIABLES
  cfg,            \* the flags of the call: mode ("subdim" | "top"), include_compounds,
                  \* noble, noble_package, max_per_hyperplane, uniform, save
  tab,            \* the tables built before the search: f_counts, ff_counts,
                  \* ridge_counts, ridge_idx_orbits, possible_facets, compound_facets
  ridge_muls,     \* ridge_muls[hp][f][ridge_orbit]
  ones,           \* ones[ridge_orbit]: the facets of multiplicity 1 on that orbit
  facets_queue,   \* the work stack: <<facets, min_hp, cached_ridge_muls>>
  output_facets,  \* the accepted facet lists
  skipped,        \* facetings skipped by the uniform filter
  compound_map,   \* faceting_subdim: the map label_irc returns
  output,         \* Concrete::faceting: the polytopes returned (by their facet lists)
  build_pos,      \* Concrete::faceting: the next entry of output_facets to build
  faceting_idx,   \* Concrete::faceting: the number printed for the next faceting
  pc,             \* position of the run
  popped,         \* history: every entry popped, with its folded vector and class
  built,          \* history: every structure assembled, with the dyadic verdict
  vertex_map,     \* the rows of the vertex map
  vertex_orbits,  \* the orbits of vertices found so far
  orbit_of_vertex,    \* for each vertex its orbit index (0-based, as in the code)
  checked_vertices,   \* whether the vertex is already in an orbit
  orbit_idx,      \* the index of the next orbit (0-based)
  v,              \* the vertex the orbit loop is at
  ranks,          \* a rank structure (Ranks) being sorted
  sorts,          \* history: the structure given, and after each element_sort_strong
  gen_iter,       \* a GenIter: gens, elements, queue, gen_idx
  yielded,        \* history: what every call of GenIter::next returned
  queued,         \* history: every element pushed on the queue of the GenIter
  dyad,           \* what faceting_subdim returned for a segment (rank 2)
  request,        \* Concrete::faceting: the rank of the polytope and the options
  shape,          \* the facets of one faceting as a set, and the place of their plane
  runs,           \* two runs on the shape: what each has built so far
  products,       \* history: every product el * gen that try_next formed
  bsearch,        \* a call of binary: vec, min, the indices read, the result
  hp_enum,        \* the enumeration of the hyperplane orbits by tuples of vertices
  ridge_orbits,   \* the indexing of the ridges by orbit
  stabilizer      \* the rows that keep a hyperplane, in its local indices

searchVars == <<cfg, tab, ridge_muls, ones, facets_queue, output_facets, skipped,
                compound_map, output, build_pos, faceting_idx, popped, built>>
orbitVars == <<vertex_map, vertex_orbits, orbit_of_vertex, checked_vertices, orbit_idx, v>>
sortVars == <<ranks, sorts>>
lateVars == <<products, bsearch, hp_enum, ridge_orbits, stabilizer>>
moreVars == <<gen_iter, yielded, queued, dyad, request, shape, runs, lateVars>>
vars == <<searchVars, orbitVars, sortVars, moreVars, pc>>

\* ------------------------------------------------------- Option<usize>
None == <<>>
Some(x) == <<x>>

\* --------------------------------------------------- orderings and sorts
\* Ord of (usize, usize)
LessPair(p, q) == p[1] < q[1] \/ (p[1] = q[1] /\ p[2] < q[2])

\* Ord of Vec<(usize, usize)>: lexicographic, a proper prefix is smaller
RECURSIVE LessListFrom(_, _, _)
LessListFrom(s, t, i) ==
  IF i > Len(s) THEN i <= Len(t)
  ELSE IF i > Len(t) THEN FALSE
  ELSE IF LessPair(s[i], t[i]) THEN TRUE
  ELSE IF LessPair(t[i], s[i]) THEN FALSE
  ELSE LessListFrom(s, t, i + 1)

LessList(s, t) == LessListFrom(s, t, 1)

RECURSIVE InsertPair(_, _)
InsertPair(s, p) ==
  IF s = <<>> THEN <<p>>
  ELSE IF LessPair(p, s[1]) THEN <<p>> \o s
  ELSE <<s[1]>> \o InsertPair(Tail(s), p)

\* new_facets.sort_unstable()
RECURSIVE SortPairs(_)
SortPairs(s) == IF s = <<>> THEN <<>> ELSE InsertPair(SortPairs(Tail(s)), s[1])

RECURSIVE InsertList(_, _)
InsertList(s, l) ==
  IF s = <<>> THEN <<l>>
  ELSE IF LessList(l, s[1]) THEN <<l>> \o s
  ELSE <<s[1]>> \o InsertList(Tail(s), l)

\* output_facets.sort_unstable()
RECURSIVE SortLists(_)
SortLists(s) == IF s = <<>> THEN <<>> ELSE InsertList(SortLists(Tail(s)), s[1])

\* ------------------------------------------------------------ label_irc
\* The scan of vec[a] for the elements of vec[b]; i elements of vec[b] are matched.
RECURSIVE SubsetScan(_, _, _, _)
SubsetScan(A, B, k, i) ==
  IF k > Len(A) THEN FALSE
  ELSE IF LessPair(A[k], B[i + 1]) THEN SubsetScan(A, B, k + 1, i)
  ELSE IF LessPair(B[i + 1], A[k]) THEN FALSE
  ELSE IF i + 1 >= Len(B) THEN TRUE
  ELSE SubsetScan(A, B, k + 1, i + 1)

\* The complement loop: the elements g of vec[a] not consumed by the pointer j.
RECURSIVE ComplementFrom(_, _, _, _)
ComplementFrom(A, B, k, j) ==
  IF k > Len(A) THEN <<>>
  ELSE IF j >= Len(B) THEN <<A[k]>> \o ComplementFrom(A, B, k + 1, j)
  ELSE IF LessPair(A[k], B[j + 1]) THEN <<A[k]>> \o ComplementFrom(A, B, k + 1, j)
  ELSE ComplementFrom(A, B, k + 1, j + 1)

RECURSIVE FindComplementAny(_, _, _)
FindComplementAny(vec, complement, c) ==
  IF c > Len(vec) THEN 0
  ELSE IF Len(vec[c]) = Len(complement) THEN c
  ELSE FindComplementAny(vec, complement, c + 1)

\* for c in b+1..vec.len(): the first c with vec[c] == complement, 0 if none
RECURSIVE FindComplement(_, _, _)
FindComplement(vec, complement, c) ==
  IF c > Len(vec) THEN 0
  ELSE IF vec[c] = complement THEN c
  ELSE FindComplement(vec, complement, c + 1)

\* The loop over b for one a: <<b, c>> when an entry is inserted, <<>> when none is.
RECURSIVE LabelOne(_, _, _)
LabelOne(vec, a, b) ==
  IF b > Len(vec) THEN <<>>
  ELSE IF Len(vec[b]) >= Len(vec[a]) THEN LabelOne(vec, a, b + 1)
  ELSE IF LessPair(vec[a][1], vec[b][1]) THEN <<>>
  ELSE IF SubsetScan(vec[a], vec[b], 1, 0)
       THEN LET c == FindComplement(vec, ComplementFrom(vec[a], vec[b], 1, 0), b + 1)
            IN IF c = 0 THEN <<>> ELSE <<b, c>>
  ELSE LabelOne(vec, a, b + 1)

label_irc(vec) ==
  LET keys == {a \in 1..Len(vec) : LabelOne(vec, a, 1) # <<>>}
  IN [a \in keys |-> LabelOne(vec, a, 1)]

\* ----------------------------------------------------------- filter_irc
RECURSIVE FilterDropsSelf(_, _, _)
FilterDropsSelf(vec, a, b) ==
  IF b > Len(vec) THEN FALSE
  ELSE IF Len(vec[b]) > Len(vec[a]) THEN FilterDropsSelf(vec, a, b + 1)
  ELSE IF LessPair(vec[a][1], vec[b][1]) THEN FALSE
  ELSE IF SubsetScan(vec[a], vec[b], 1, 0) THEN TRUE
  ELSE FilterDropsSelf(vec, a, b + 1)

\* the loop over b for one a: TRUE when a subset of vec[a] is found
RECURSIVE FilterDrops(_, _, _)
FilterDrops(vec, a, b) ==
  IF b > Len(vec) THEN FALSE
  ELSE IF a = b THEN FilterDrops(vec, a, b + 1)
  ELSE IF Len(vec[b]) > Len(vec[a]) THEN FilterDrops(vec, a, b + 1)
  ELSE IF LessPair(vec[a][1], vec[b][1]) THEN FALSE
  ELSE IF SubsetScan(vec[a], vec[b], 1, 0) THEN TRUE
  ELSE FilterDrops(vec, a, b + 1)

RECURSIVE FilterFrom(_, _)
FilterFrom(vec, a) ==
  IF a > Len(vec) THEN <<>>
  ELSE IF FilterDrops(vec, a, 1) THEN FilterFrom(vec, a + 1)
  ELSE <<a>> \o FilterFrom(vec, a + 1)

filter_irc(vec) == FilterFrom(vec, 1)

\* ---------------------------------------------------------------- binary
\* isize division by 2 rounds toward zero
TruncDiv2(x) == IF x >= 0 THEN x \div 2 ELSE -((-x) \div 2)

\* binary with the comparison vec[c].0 >= min
RECURSIVE binaryLoopGe(_, _, _, _)
binaryLoopGe(vec, min, lo, hi) ==
  IF hi - lo > 1
  THEN LET c == TruncDiv2(lo + hi)
       IN IF vec[c + 1][1] >= min THEN binaryLoopGe(vec, min, lo, c)
          ELSE binaryLoopGe(vec, min, c, hi)
  ELSE hi

\* The while loop of binary; lo, hi and c are the 0-based values of the code.
RECURSIVE binaryLoop(_, _, _, _)
binaryLoop(vec, min, lo, hi) ==
  IF hi - lo > 1
  THEN LET c == TruncDiv2(lo + hi)
       IN IF vec[c + 1][1] > min THEN binaryLoop(vec, min, lo, c)
          ELSE binaryLoop(vec, min, c, hi)
  ELSE hi

binaryNoSkip(vec, min) == 0

binary(vec, min) == binaryLoop(vec, min, -1, Len(vec))

\* ------------------------------------------- ridge multiplicities, ones
NumHp == Len(tab.possible_facets)
NumOrbits == Len(tab.ridge_counts)
Zeros == [r \in 1..NumOrbits |-> 0]

\* ridge_idx_orbits[hp][ridge_idx.0][ridge_idx.1]
RidgeOrbit(hp, ridge_idx) == tab.ridge_idx_orbits[hp][ridge_idx[1]][ridge_idx[2]]

\* let mul = f_count * ridge_count / total_ridge_count  (usize division)
RidgeMul(f_count, ridge_count, total_ridge_count) ==
  (f_count * ridge_count) \div total_ridge_count

\* mul of one local ridge of a facet of hyperplane orbit hp
LocalMul(hp, ridge_idx) ==
  RidgeMul(tab.f_counts[hp], tab.ff_counts[hp][ridge_idx[1]],
           tab.ridge_counts[RidgeOrbit(hp, ridge_idx)])

\* ridge_muls_facet after the loop over the local ridges: each one assigns its entry
RECURSIVE RidgeMulsFacet(_, _, _, _)
RidgeMulsFacet(hp, f, i, acc) ==
  LET ridges == tab.possible_facets[hp][f]
  IN IF i > Len(ridges) THEN acc
     ELSE RidgeMulsFacet(hp, f, i + 1,
            [acc EXCEPT ![RidgeOrbit(hp, ridges[i])] = LocalMul(hp, ridges[i])])

RidgeMuls ==
  [hp \in 1..NumHp |->
     [f \in 1..Len(tab.possible_facets[hp]) |-> RidgeMulsFacet(hp, f, 1, Zeros)]]

\* the pushes of (hp, f) onto ones[o] made for one facet, one per local ridge with mul 1
RECURSIVE OnesFacet(_, _, _, _)
OnesFacet(hp, f, o, i) ==
  LET ridges == tab.possible_facets[hp][f]
  IN IF i > Len(ridges) THEN <<>>
     ELSE (IF RidgeOrbit(hp, ridges[i]) = o /\ LocalMul(hp, ridges[i]) = 1
           THEN << <<hp, f>> >> ELSE <<>>) \o OnesFacet(hp, f, o, i + 1)

RECURSIVE OnesHp(_, _, _)
OnesHp(hp, f, o) ==
  IF f > Len(tab.possible_facets[hp]) THEN <<>>
  ELSE OnesFacet(hp, f, o, 1) \o OnesHp(hp, f + 1, o)

RECURSIVE OnesFrom(_, _)
OnesFrom(hp, o) == IF hp > NumHp THEN <<>> ELSE OnesHp(hp, 1, o) \o OnesFrom(hp + 1, o)

Ones == [o \in 1..NumOrbits |-> OnesFrom(1, o)]

\* the seeds: every single facet, in hyperplane order
RECURSIVE SeedsHp(_, _)
SeedsHp(hp, f) ==
  IF f > Len(tab.possible_facets[hp]) THEN <<>>
  ELSE << << << <<hp, f>> >>, hp, Zeros >> >> \o SeedsHp(hp, f + 1)

RECURSIVE SeedsFrom(_)
SeedsFrom(hp) == IF hp > NumHp THEN <<>> ELSE SeedsHp(hp, 1) \o SeedsFrom(hp + 1)

\* --------------------------------------------------- one pop of the search
\* the fold of the last facet into the cached vector, with its early exit at > 2
RECURSIVE FoldFrom(_, _, _, _)
FoldFrom(rm, hp, f, i) ==
  LET ridges == tab.possible_facets[hp][f]
  IN IF i > Len(ridges) THEN rm
     ELSE LET o == RidgeOrbit(hp, ridges[i])
              nw == [rm EXCEPT ![o] = @ + ridge_muls[hp][f][o]]
          IN IF nw[o] > 2 THEN nw ELSE FoldFrom(nw, hp, f, i + 1)

Fold(cached_ridge_muls, last_facet) ==
  FoldFrom(cached_ridge_muls, last_facet[1], last_facet[2], 1)

\* valid: 0 valid, 1 exotic, 2 incomplete
RECURSIVE ValidFromNoOpen(_, _, _)
ValidFromNoOpen(rm, i, valid) ==
  IF i > Len(rm) THEN valid
  ELSE IF rm[i] > 2 THEN 1
  ELSE ValidFromNoOpen(rm, i + 1, valid)

RECURSIVE ValidFrom(_, _, _)
ValidFrom(rm, i, valid) ==
  IF i > Len(rm) THEN valid
  ELSE IF rm[i] > 2 THEN 1
  ELSE ValidFrom(rm, i + 1, IF rm[i] = 1 THEN 2 ELSE valid)

ValidNeverExotic(rm) == IF ValidFrom(rm, 1, 0) = 1 THEN 0 ELSE ValidFrom(rm, 1, 0)

Valid(rm) == ValidFrom(rm, 1, 0)

\* the leaf components of one chosen facet, by the compound map of its hyperplane
\* a splitting that stops after one level of the compound map
ComponentsOnce(hp, queue) ==
  LET map == tab.compound_facets[hp]
  IN IF queue = <<>> THEN <<>>
     ELSE IF Head(queue) \in DOMAIN map
          THEN <<map[Head(queue)][1], map[Head(queue)][2]>>
          ELSE <<Head(queue)>>

RECURSIVE Components(_, _)
Components(hp, queue) ==
  IF queue = <<>> THEN <<>>
  ELSE LET next == Head(queue)
           map == tab.compound_facets[hp]
       IN IF next \in DOMAIN map
          THEN Components(hp, Tail(queue) \o <<map[next][1], map[next][2]>>)
          ELSE <<next>> \o Components(hp, Tail(queue))

RECURSIVE PairUp(_, _)
PairUp(hp, comps) ==
  IF comps = <<>> THEN <<>> ELSE << <<hp, Head(comps)>> >> \o PairUp(hp, Tail(comps))

RECURSIVE SplitFrom(_, _)
SplitFrom(facets, i) ==
  IF i > Len(facets) THEN <<>>
  ELSE PairUp(facets[i][1], Components(facets[i][1], <<facets[i][2]>>))
       \o SplitFrom(facets, i + 1)

\* new_facets of the accepting branch
SplitCompounds(facets) == SplitFrom(facets, 1)

UsedHpsNone(facets) == {}

\* used_hps: the hyperplane orbits of facets.iter().skip(1)
UsedHps(facets) == {facets[i][1] : i \in 2..Len(facets)}

\* the pushes made after an accepted combination: every facet of every unused
\* hyperplane orbit above min_hp, the new entry's min_hp being that orbit
RECURSIVE ExtendHp(_, _, _, _)
ExtendHp(facets, hp, f, muls) ==
  IF f > Len(tab.possible_facets[hp]) THEN <<>>
  ELSE << <<Append(facets, <<hp, f>>), hp, muls>> >> \o ExtendHp(facets, hp, f + 1, muls)

RECURSIVE ExtendFrom(_, _, _)
ExtendFrom(facets, hp, muls) ==
  IF hp > NumHp THEN <<>>
  ELSE (IF hp \notin UsedHps(facets) THEN ExtendHp(facets, hp, 1, muls) ELSE <<>>)
       \o ExtendFrom(facets, hp + 1, muls)

ValidExtensionsFromMin(facets, min_hp, muls) == ExtendFrom(facets, min_hp, muls)

ValidExtensionsSkipOne(facets, min_hp, muls) == ExtendFrom(facets, min_hp + 2, muls)

ValidExtensions(facets, min_hp, muls) == ExtendFrom(facets, min_hp + 1, muls)

\* the first ridge orbit at multiplicity 1
RECURSIVE FirstOne(_, _)
FirstOne(rm, i) == IF i > Len(rm) THEN 0 ELSE IF rm[i] = 1 THEN i ELSE FirstOne(rm, i + 1)

RECURSIVE CloseFrom(_, _, _, _, _)
CloseFrom(facets, min_hp, muls, list, i) ==
  IF i > Len(list) THEN <<>>
  ELSE (IF list[i][1] \notin UsedHps(facets)
        THEN << <<Append(facets, list[i]), min_hp, muls>> >> ELSE <<>>)
       \o CloseFrom(facets, min_hp, muls, list, i + 1)

\* the pushes made after an incomplete combination: the facets of ones[idx] from
\* the index binary returns, idx the first open ridge orbit
IncompleteExtensions(facets, min_hp, muls) ==
  LET idx == FirstOne(muls, 1)
  IN IF idx = 0 THEN <<>>
     ELSE CloseFrom(facets, min_hp, muls, ones[idx], binary(ones[idx], min_hp) + 1)

\* is_dyadic of the rank structure assembled from a facet list; the structure is
\* a function of the tables, which say which facets assemble badly
IsDyadic(new_facets) ==
  \A i \in 1..Len(new_facets) : new_facets[i] \notin tab.not_dyadic

\* the uniform filter: element_types()[1].len() <= 1, or every component isogonal
IsIsogonal(new_facets) ==
  \A i \in 1..Len(new_facets) : new_facets[i] \notin tab.not_isogonal

\* ------------------------------------------------------------- actions
\* The tables ridge_muls and ones, and the seeds of the work stack.
StartCombining ==
  /\ pc = "combine"
  /\ ridge_muls' = RidgeMuls
  /\ ones' = Ones
  /\ facets_queue' = SeedsFrom(1)
  /\ pc' = "search"
  /\ UNCHANGED <<orbitVars, sortVars, moreVars>>
  /\ UNCHANGED <<cfg, tab, output_facets, skipped, compound_map, output, build_pos,
                 faceting_idx, popped, built>>

Popped == facets_queue[Len(facets_queue)]
Rest == SubSeq(facets_queue, 1, Len(facets_queue) - 1)
NewRidgeMuls == Fold(Popped[3], Popped[1][Len(Popped[1])])
Log(valid) ==
  Append(popped, [facets |-> Popped[1], min_hp |-> Popped[2], cached |-> Popped[3],
                  muls |-> NewRidgeMuls, valid |-> valid, pushed |-> facets_queue'])

\* A pop of a valid combination in faceting_subdim.
PopValidSubdim ==
  /\ pc = "search" /\ cfg.mode = "subdim"
  /\ facets_queue # <<>>
  /\ Valid(NewRidgeMuls) = 0
  /\ LET facets == Popped[1]
         min_hp == Popped[2]
         new_facets == SplitCompounds(facets)
         dyadic == IsDyadic(new_facets)
         keep == ~cfg.uniform \/ (dyadic /\ IsIsogonal(new_facets))
         out == IF keep THEN Append(output_facets, new_facets) ELSE output_facets
         skip == IF cfg.uniform /\ dyadic /\ ~keep THEN skipped + 1 ELSE skipped
     IN /\ built' = Append(built, [facets |-> new_facets, dyadic |-> dyadic,
                                   checked |-> cfg.uniform, returned |-> keep])
        /\ IF cfg.uniform /\ ~dyadic
           THEN \* unreachable!()
                /\ pc' = "aborted"
                /\ facets_queue' = Rest
                /\ UNCHANGED <<output_facets, skipped>>
           ELSE /\ output_facets' = out
                /\ skipped' = skip
                /\ IF cfg.max_per_hyperplane # None
                      /\ Len(out) + skip >= cfg.max_per_hyperplane[1]
                   THEN pc' = "capped" /\ facets_queue' = Rest
                   ELSE /\ pc' = pc
                        /\ facets_queue' =
                             IF ~cfg.noble_package
                             THEN Rest \o ValidExtensions(facets, min_hp, NewRidgeMuls)
                             ELSE Rest
  /\ popped' = Log(0)
  /\ UNCHANGED <<orbitVars, sortVars, moreVars>>
  /\ UNCHANGED <<cfg, tab, ridge_muls, ones, compound_map, output, build_pos,
                 faceting_idx>>

\* A pop of a valid combination in Concrete::faceting.
PopValidTop ==
  /\ pc = "search" /\ cfg.mode = "top"
  /\ facets_queue # <<>>
  /\ Valid(NewRidgeMuls) = 0
  /\ LET facets == Popped[1]
         min_hp == Popped[2]
         new_facets == SortPairs(SplitCompounds(facets))
     IN /\ output_facets' = Append(output_facets, new_facets)
        /\ facets_queue' =
             IF cfg.noble # None /\ Len(facets) = cfg.noble[1] THEN Rest
             ELSE IF cfg.include_compounds
             THEN Rest \o ValidExtensions(facets, min_hp, NewRidgeMuls)
             ELSE Rest
  /\ popped' = Log(0)
  /\ UNCHANGED <<orbitVars, sortVars, moreVars>>
  /\ UNCHANGED <<cfg, tab, ridge_muls, ones, skipped, compound_map, output, build_pos,
                 faceting_idx, pc, built>>

\* A pop of a combination with some ridge orbit above 2.
PopExotic ==
  /\ pc = "search"
  /\ facets_queue # <<>>
  /\ Valid(NewRidgeMuls) = 1
  /\ facets_queue' = Rest
  /\ popped' = Log(1)
  /\ UNCHANGED <<orbitVars, sortVars, moreVars>>
  /\ UNCHANGED <<cfg, tab, ridge_muls, ones, output_facets, skipped, compound_map,
                 output, build_pos, faceting_idx, pc, built>>

\* A pop of an incomplete combination.
PopIncomplete ==
  /\ pc = "search"
  /\ facets_queue # <<>>
  /\ Valid(NewRidgeMuls) = 2
  /\ facets_queue' =
       IF cfg.mode = "top" /\ cfg.noble # None /\ Len(Popped[1]) = cfg.noble[1] THEN Rest
       ELSE Rest \o IncompleteExtensions(Popped[1], Popped[2], NewRidgeMuls)
  /\ popped' = Log(2)
  /\ UNCHANGED <<orbitVars, sortVars, moreVars>>
  /\ UNCHANGED <<cfg, tab, ridge_muls, ones, output_facets, skipped, compound_map,
                 output, build_pos, faceting_idx, pc, built>>

\* The end of faceting_subdim: the sorts and the labelling of the compounds.
ReturnSubdim ==
  /\ cfg.mode = "subdim"
  /\ pc \in {"search", "capped"}
  /\ pc = "search" => facets_queue = <<>>
  /\ output_facets' = SortLists(output_facets)
  /\ compound_map' = label_irc(output_facets')
  /\ pc' = "done"
  /\ UNCHANGED <<orbitVars, sortVars, moreVars>>
  /\ UNCHANGED <<cfg, tab, ridge_muls, ones, facets_queue, skipped, output, build_pos,
                 faceting_idx, popped, built>>

\* The end of the search of Concrete::faceting: the sort and the compound filter.
SortAndFilter ==
  /\ cfg.mode = "top"
  /\ pc = "search" /\ facets_queue = <<>>
  /\ LET sorted == SortLists(output_facets)
         output_idxs == filter_irc(sorted)
     IN output_facets' =
          IF ~cfg.include_compounds
          THEN [i \in 1..Len(output_idxs) |-> sorted[output_idxs[i]]]
          ELSE sorted
  /\ build_pos' = 1
  /\ pc' = "build"
  /\ UNCHANGED <<orbitVars, sortVars, moreVars>>
  /\ UNCHANGED <<cfg, tab, ridge_muls, ones, facets_queue, skipped, compound_map,
                 output, faceting_idx, popped, built>>

\* One turn of the building loop of Concrete::faceting.
BuildFaceting ==
  /\ pc = "build" /\ build_pos <= Len(output_facets)
  /\ LET facets == output_facets[build_pos]
         dyadic == IsDyadic(facets)
     IN IF ~cfg.save
        THEN /\ faceting_idx' = faceting_idx + 1
             /\ UNCHANGED <<output, built>>
        ELSE /\ built' = Append(built, [facets |-> facets, dyadic |-> dyadic,
                                        checked |-> TRUE, returned |-> dyadic])
             /\ IF dyadic
                THEN output' = Append(output, facets) /\ faceting_idx' = faceting_idx + 1
                ELSE UNCHANGED <<output, faceting_idx>>
  /\ build_pos' = build_pos + 1
  /\ UNCHANGED <<orbitVars, sortVars, moreVars>>
  /\ UNCHANGED <<cfg, tab, ridge_muls, ones, facets_queue, output_facets, skipped,
                 compound_map, pc, popped>>

\* The return of Concrete::faceting.
ReturnTop ==
  /\ pc = "build" /\ build_pos > Len(output_facets)
  /\ pc' = "done"
  /\ UNCHANGED <<orbitVars, sortVars, moreVars>>
  /\ UNCHANGED <<cfg, tab, ridge_muls, ones, facets_queue, output_facets, skipped,
                 compound_map, output, build_pos, faceting_idx, popped, built>>

Next ==
  \/ StartCombining
  \/ PopValidSubdim
  \/ PopValidTop
  \/ PopExotic
  \/ PopIncomplete
  \/ ReturnSubdim
  \/ SortAndFilter
  \/ BuildFaceting
  \/ ReturnTop

\* ------------------------------------------------------ initial states
\* Every hyperplane orbit has two orbits of sub-hyperplanes: the first with one
\* faceting in each ridge orbit, the second with one faceting, in ridge orbit 1.
LocalRidges == {<<1, j>> : j \in 1..MaxOrbits} \cup {<<2, 1>>}
RidgeIdxOrbits == << [j \in 1..MaxOrbits |-> j], <<1>> >>

\* a facet: a sorted list of distinct local ridges
FacetShapes ==
  {s \in UNION {[1..n -> LocalRidges] : n \in 1..MaxRidges} :
     \A i \in 1..(Len(s) - 1) : LessPair(s[i], s[i + 1])}

\* the facets of one hyperplane orbit: a sorted list of k distinct facets
FacetLists(k) ==
  {l \in [1..k -> FacetShapes] : \A i \in 1..(k - 1) : LessList(l[i], l[i + 1])}

Min(a, b) == IF a < b THEN a ELSE b

\* possible_facets of n hyperplane orbits holding at most budget facets together
RECURSIVE PossibleFacets(_, _)
PossibleFacets(n, budget) ==
  IF n = 0 THEN {<<>>}
  ELSE UNION {{<<l>> \o rest : l \in FacetLists(k), rest \in PossibleFacets(n - 1, budget - k)} :
                k \in 1..Min(MaxFacets, budget - (n - 1))}

\* the tables over the facets pf with orbit sizes fc, rc and up to top; nd and ni
\* are the verdicts of is_dyadic and of the isogonality test
Table(pf, fc, rc, top, nd, ni) ==
  [f_counts |-> fc, ff_counts |-> [hp \in 1..Len(pf) |-> <<1, top>>],
   ridge_counts |-> rc,
   ridge_idx_orbits |-> [hp \in 1..Len(pf) |-> RidgeIdxOrbits],
   possible_facets |-> pf,
   compound_facets |-> [hp \in 1..Len(pf) |-> label_irc(pf[hp])],
   not_dyadic |-> nd, not_isogonal |-> ni]

\* tab is a table over one of pfs
InitTables(pfs, top, bad, odd) ==
  \E pf \in pfs :
    \E fc \in [1..Len(pf) -> 1..top] : \E rc \in [1..MaxOrbits -> 1..top] :
      \E nd \in bad : \E ni \in odd :
        tab = Table(pf, fc, rc, top, nd, ni)

TopCfgs(saves) ==
  {[mode |-> "top", include_compounds |-> ic, noble |-> nb, noble_package |-> FALSE,
    max_per_hyperplane |-> None, uniform |-> FALSE, save |-> sv] :
     ic \in BOOLEAN, nb \in {None, Some(MaxNoble)}, sv \in saves}

SubdimCfgs(uniforms) ==
  {[mode |-> "subdim", include_compounds |-> TRUE, noble |-> None, noble_package |-> np,
    max_per_hyperplane |-> cap, uniform |-> un, save |-> FALSE] :
     np \in BOOLEAN, cap \in {None, Some(MaxCap)}, un \in uniforms}

\* the parts of the state a run does not use
NoOrbits ==
  /\ vertex_map = <<>> /\ vertex_orbits = <<>> /\ orbit_of_vertex = <<>>
  /\ checked_vertices = <<>> /\ orbit_idx = 0 /\ v = 0

NoSort == ranks = <<>> /\ sorts = <<>>

NoGenIter == gen_iter = <<>> /\ yielded = <<>> /\ queued = <<>>

NoHash == shape = <<>> /\ runs = <<>>

NoLate ==
  /\ products = <<>> /\ bsearch = <<>> /\ hp_enum = <<>>
  /\ ridge_orbits = <<>> /\ stabilizer = <<>>

NoMore == NoGenIter /\ dyad = <<>> /\ request = <<>> /\ NoHash /\ NoLate

NoSearch ==
  /\ ridge_muls = <<>> /\ ones = <<>> /\ facets_queue = <<>>
  /\ output_facets = <<>> /\ skipped = 0 /\ compound_map = <<>>
  /\ output = <<>> /\ build_pos = 0 /\ faceting_idx = 0
  /\ popped = <<>> /\ built = <<>>

InitRun == NoSearch /\ pc = "combine" /\ NoOrbits /\ NoSort /\ NoMore

AllPossibleFacets == UNION {PossibleFacets(n, MaxTotal) : n \in 1..MaxHp}

Init ==
  /\ cfg \in TopCfgs({TRUE}) \cup SubdimCfgs({FALSE})
  /\ InitTables(AllPossibleFacets, MaxCount, {{}}, {{}})
  /\ InitRun

Spec == Init /\ [][Next]_vars

\* The runs in which the assembled structure of a facet list may fail is_dyadic and
\* the uniform filter is on or off: smaller tables, every verdict of the two checks.
FewPossibleFacets == UNION {PossibleFacets(n, MaxBuilt) : n \in 1..MaxBuilt}
Verdicts == {{}, {<<1, 1>>}}

InitAssemble ==
  /\ cfg \in TopCfgs(BOOLEAN) \cup SubdimCfgs(BOOLEAN)
  /\ InitTables(FewPossibleFacets, MaxCount, Verdicts, Verdicts)
  /\ InitRun

SpecAssemble == InitAssemble /\ [][Next]_vars

\* The searches of faceting_subdim over tables whose multiplicities are all 1 and
\* whose hyperplane orbits may hold compound facets.
InitSubdim ==
  /\ cfg \in {c \in SubdimCfgs({FALSE}) : ~c.noble_package}
  /\ InitTables(PossibleFacets(MaxHp, MaxTotalUnit), 1, {{}}, {{}})
  /\ InitRun

NextSubdim ==
  \/ StartCombining
  \/ PopValidSubdim
  \/ PopExotic
  \/ PopIncomplete
  \/ ReturnSubdim

SpecSubdim == InitSubdim /\ [][NextSubdim]_vars


\* ------------------------------------------------- the orbits of vertices
\* The loop over the rows for one unchecked vertex: st holds new_orbit,
\* checked_vertices and orbit_of_vertex.
RECURSIVE OrbitRowsUnchecked(_, _, _)
OrbitRowsUnchecked(vtx, i, st) ==
  IF i > Len(vertex_map) THEN st
  ELSE LET c == vertex_map[i][vtx]
       IN OrbitRowsUnchecked(vtx, i + 1,
            [new_orbit |-> Append(st.new_orbit, c),
             checked |-> [st.checked EXCEPT ![c] = TRUE],
             orbit_of |-> [st.orbit_of EXCEPT ![c] = orbit_idx]])

RECURSIVE OrbitRows(_, _, _)
OrbitRows(vtx, i, st) ==
  IF i > Len(vertex_map) THEN st
  ELSE LET c == vertex_map[i][vtx]
       IN IF ~st.checked[c]
          THEN OrbitRows(vtx, i + 1,
                 [new_orbit |-> Append(st.new_orbit, c),
                  checked |-> [st.checked EXCEPT ![c] = TRUE],
                  orbit_of |-> [st.orbit_of EXCEPT ![c] = orbit_idx]])
          ELSE OrbitRows(vtx, i + 1, st)

\* for v in 0..vertices.len(): a vertex already checked
SkipVertex ==
  /\ pc = "matching"
  /\ v <= Len(checked_vertices)
  /\ checked_vertices[v]
  /\ v' = v + 1
  /\ UNCHANGED <<vertex_map, vertex_orbits, orbit_of_vertex, checked_vertices, orbit_idx>>
  /\ UNCHANGED <<searchVars, sortVars, pc, moreVars>>

\* for v in 0..vertices.len(): a vertex not checked yet starts a new orbit
NewOrbit ==
  /\ pc = "matching"
  /\ v <= Len(checked_vertices)
  /\ ~checked_vertices[v]
  /\ LET st == OrbitRows(v, 1, [new_orbit |-> <<>>, checked |-> checked_vertices,
                                orbit_of |-> orbit_of_vertex])
     IN /\ vertex_orbits' = Append(vertex_orbits, st.new_orbit)
        /\ checked_vertices' = st.checked
        /\ orbit_of_vertex' = st.orbit_of
  /\ orbit_idx' = orbit_idx + 1
  /\ v' = v + 1
  /\ UNCHANGED vertex_map
  /\ UNCHANGED <<searchVars, sortVars, pc, moreVars>>

\* the end of the loop over the vertices
OrbitsMatched ==
  /\ pc = "matching"
  /\ v > Len(checked_vertices)
  /\ pc' = "matched"
  /\ UNCHANGED <<searchVars, orbitVars, sortVars, moreVars>>

NextOrbits ==
  \/ SkipVertex
  \/ NewOrbit
  \/ OrbitsMatched

\* the permutations of 1..n, as rows
Rows(n) == {r \in [1..n -> 1..n] : \A i, j \in 1..n : r[i] = r[j] => i = j}

\* any vertex map: a non-empty list of permutations of the vertices
InitOrbits ==
  /\ \E n \in 1..MaxVertices :
       /\ vertex_map \in UNION {[1..k -> Rows(n)] : k \in 1..MaxRows}
       /\ orbit_of_vertex = [i \in 1..n |-> 0]
       /\ checked_vertices = [i \in 1..n |-> FALSE]
  /\ vertex_orbits = <<>>
  /\ orbit_idx = 0
  /\ v = 1
  /\ pc = "matching"
  /\ cfg = <<>> /\ tab = <<>>
  /\ NoSearch /\ NoSort /\ NoMore

SpecOrbits == InitOrbits /\ [][NextOrbits]_vars

NumVertices == Len(checked_vertices)
HasIdentity == \E i \in 1..Len(vertex_map) : \A u \in 1..NumVertices : vertex_map[i][u] = u

\* the places of vertex u in the orbits
Places(u) ==
  {p \in (1..Len(vertex_orbits)) \X (1..NumVertices) :
     p[2] <= Len(vertex_orbits[p[1]]) /\ vertex_orbits[p[1]][p[2]] = u}

\* C6: for a vertex map that contains the identity the orbits built cover every
\* vertex exactly once: every vertex is at one place of one orbit, the orbit
\* orbit_of_vertex names, and no orbit is empty.
OrbitsPartition ==
  (pc = "matched" /\ HasIdentity) =>
    /\ \A u \in 1..NumVertices :
         /\ Cardinality(Places(u)) = 1
         /\ \E p \in Places(u) : p[1] = orbit_of_vertex[u] + 1
    /\ \A k \in 1..Len(vertex_orbits) : vertex_orbits[k] # <<>>
    /\ orbit_idx = Len(vertex_orbits)

\* a finished partition under a map with the identity, with two orbits, one of
\* them of two vertices or more
OrbitsPartitionWitness ==
  /\ pc = "matched" /\ HasIdentity
  /\ Len(vertex_orbits) >= 2
  /\ \E k \in 1..Len(vertex_orbits) : Len(vertex_orbits[k]) >= 2

\* ------------------------------------------------- element_sort_strong
\* A rank structure is the list of its ranks; ranks[1] is the least rank (self[0])
\* and ranks[3] the edges (self[2]).  An element is its subs and sups; the subs
\* are 1-based indices into the rank below.
RECURSIVE InsertNat(_, _)
InsertNat(s, n) ==
  IF s = <<>> THEN <<n>>
  ELSE IF n < s[1] THEN <<n>> \o s
  ELSE <<s[1]>> \o InsertNat(Tail(s), n)

\* subs.sort_unstable()
RECURSIVE SortNat(_)
SortNat(s) == IF s = <<>> THEN <<>> ELSE InsertNat(SortNat(Tail(s)), s[1])

\* Ord of Subelements: lexicographic, a proper prefix is smaller
RECURSIVE LessSubsFrom(_, _, _)
LessSubsFrom(s, t, i) ==
  IF i > Len(s) THEN i <= Len(t)
  ELSE IF i > Len(t) THEN FALSE
  ELSE IF s[i] < t[i] THEN TRUE
  ELSE IF t[i] < s[i] THEN FALSE
  ELSE LessSubsFrom(s, t, i + 1)

RECURSIVE InsertSubs(_, _)
InsertSubs(s, l) ==
  IF s = <<>> THEN <<l>>
  ELSE IF LessSubsFrom(l, s[1], 1) THEN <<l>> \o s
  ELSE <<s[1]>> \o InsertSubs(Tail(s), l)

\* sorted.sort_unstable()
RECURSIVE SortSubs(_)
SortSubs(s) == IF s = <<>> THEN <<>> ELSE InsertSubs(SortSubs(Tail(s)), s[1])

\* sorted.iter().position(|x| x == i).unwrap()
RECURSIVE Position(_, _, _)
Position(sorted, x, i) == IF sorted[i] = x THEN i ELSE Position(sorted, x, i + 1)

SortEdgeSubsNot(self) == self

\* for el in 0..self[2].len(): self[2][el].subs.sort_unstable()
SortEdgeSubs(self) ==
  [self EXCEPT ![3] = [el \in 1..Len(self[3]) |->
                         [self[3][el] EXCEPT !.subs = SortNat(self[3][el].subs)]]]

\* one turn of the loop over the ranks
SortRank(self, rank) ==
  LET all_subs == [i \in 1..Len(self[rank]) |-> self[rank][i].subs]
      sorted == SortSubs(all_subs)
      perm == [i \in 1..Len(all_subs) |-> Position(sorted, all_subs[i], 1)]
      this == [i \in 1..Len(self[rank]) |->
                 [self[rank][i] EXCEPT !.subs = SortNat(sorted[i])]]
      new_list == [i \in 1..Len(self[rank + 1]) |->
                     [subs |-> SortNat([k \in 1..Len(self[rank + 1][i].subs) |->
                                          perm[self[rank + 1][i].subs[k]]]),
                      sups |-> <<>>]]
  IN [self EXCEPT ![rank] = this, ![rank + 1] = new_list]

\* for rank in 2..self.len()-1
RECURSIVE SortRanksFrom(_, _)
SortRanksFrom(self, rank) ==
  IF rank > Len(self) - 1 THEN self ELSE SortRanksFrom(SortRank(self, rank), rank + 1)

element_sort_strong(self) == SortRanksFrom(SortEdgeSubs(self), 3)

\* one call of element_sort_strong on the structure
SortStrong ==
  /\ pc = "sorting"
  /\ Len(sorts) <= MaxSorts
  /\ ranks' = element_sort_strong(ranks)
  /\ sorts' = Append(sorts, ranks')
  /\ UNCHANGED <<searchVars, orbitVars, pc, moreVars>>

NextSort == SortStrong

\* the lists of 1 to MaxSubs indices below or at n
SubsLists(n) == UNION {[1..k -> 1..n] : k \in 1..MaxSubs}

\* the lists of k elements over a rank of n elements
ElementLists(k, n, sp) == [1..k -> [subs : SubsLists(n), sups : {sp}]]

Least == << [subs |-> <<>>, sups |-> <<>>] >>
Vertices == [i \in 1..MaxSubs |-> [subs |-> <<1>>, sups |-> <<>>]]

\* any structure of edges alone, of edges and faces, or of edges, faces and cells,
\* of 1 to MaxEls elements each, over MaxSubs vertices
InitSort ==
  /\ \E sp \in {<<>>, <<1>>} :
       \E ne \in 1..MaxEls : \E edges \in ElementLists(ne, MaxSubs, sp) :
         \/ ranks = <<Least, Vertices, edges>>
         \/ \E nf \in 1..MaxEls : \E faces \in ElementLists(nf, ne, sp) :
              \/ ranks = <<Least, Vertices, edges, faces>>
              \/ \E nc \in 1..MaxEls : \E cells \in ElementLists(nc, nf, sp) :
                   ranks = <<Least, Vertices, edges, faces, cells>>
  /\ sorts = <<ranks>>
  /\ pc = "sorting"
  /\ cfg = <<>> /\ tab = <<>>
  /\ NoSearch /\ NoOrbits /\ NoMore

SpecSort == InitSort /\ [][NextSort]_vars

\* C10: element_sort_strong is idempotent: applied twice to a rank structure it
\* gives the structure it gives applied once.
SortIsIdempotent ==
  \A i \in 3..Len(sorts) : sorts[i] = sorts[2]

\* a structure of edges, faces and cells sorted twice, whose edges, faces and cells
\* the first sort changed
SortIsIdempotentWitness ==
  /\ Len(sorts) = MaxSorts + 1
  /\ Len(sorts[1]) = 5
  /\ \A r \in 3..5 : sorts[2][r] # sorts[1][r]

\* ------------------------------------------------- the combination search
SetOf(s) == {s[i] : i \in 1..Len(s)}

\* the (hyperplane orbit, facet) pairs of the tables
AllFacets == {p \in (1..NumHp) \X (1..MaxFacets) : p[2] <= Len(tab.possible_facets[p[1]])}

\* what one facet adds to ridge orbit o over a whole fold: its stored multiplicity
\* on o, once for each of its local ridges in o
FacetMul(hp, f, o) ==
  Cardinality({i \in 1..Len(tab.possible_facets[hp][f]) :
                 RidgeOrbit(hp, tab.possible_facets[hp][f][i]) = o}) * ridge_muls[hp][f][o]

RECURSIVE SeqMul(_, _, _)
SeqMul(facets, o, i) ==
  IF i > Len(facets) THEN 0
  ELSE FacetMul(facets[i][1], facets[i][2], o) + SeqMul(facets, o, i + 1)

RECURSIVE SetMul(_, _)
SetMul(S, o) ==
  IF S = {} THEN 0
  ELSE LET p == CHOOSE q \in S : TRUE
       IN FacetMul(p[1], p[2], o) + SetMul(S \ {p}, o)

\* some facet of the combination has a local ridge in ridge orbit o
HasRidgeIn(facets, o) ==
  \E i \in 1..Len(facets) :
    \E k \in 1..Len(tab.possible_facets[facets[i][1]][facets[i][2]]) :
      RidgeOrbit(facets[i][1], tab.possible_facets[facets[i][1]][facets[i][2]][k]) = o

\* every multiplicity of a candidate facet is an integer
Integral ==
  \A p \in AllFacets :
    \A k \in 1..Len(tab.possible_facets[p[1]][p[2]]) :
      LET r == tab.possible_facets[p[1]][p[2]][k]
      IN (tab.f_counts[p[1]] * tab.ff_counts[p[1]][r[1]])
           % tab.ridge_counts[RidgeOrbit(p[1], r)] = 0

Accepted == {i \in 1..Len(popped) : popped[i].valid = 0}

Unrestricted ==
  IF cfg.mode = "top" THEN cfg.include_compounds /\ cfg.noble = None
  ELSE ~cfg.noble_package /\ cfg.max_per_hyperplane = None /\ ~cfg.uniform

OnePerHp(S) == \A p, q \in S : p[1] = q[1] => p = q

\* the sets of candidate facets that close every ridge orbit
ClosedSets ==
  {S \in SUBSET AllFacets :
     /\ S # {}
     /\ OnePerHp(S)
     /\ \A o \in 1..NumOrbits : SetMul(S, o) \in {0, 2}}

\* the list an accepted combination leaves in output_facets
Emitted(facets) ==
  IF cfg.mode = "top" THEN SortPairs(SplitCompounds(facets)) ELSE SplitCompounds(facets)

\* C2: with compounds included and no cap, noble or uniform restriction, once
\* the search is over every non-empty set of candidate facets with at most one
\* facet of each hyperplane orbit whose multiplicities sum to 0 or 2 on every
\* ridge orbit has been accepted, and its list is in output_facets.
SearchIsComplete ==
  (pc \in {"build", "done"} /\ Unrestricted) =>
    \A S \in ClosedSets :
      \E i \in Accepted :
        /\ SetOf(popped[i].facets) = S
        /\ \E k \in 1..Len(output_facets) : output_facets[k] = Emitted(popped[i].facets)

\* a finished unrestricted search with a closed set of three facets, one of them
\* joined by closing an open ridge orbit
SearchIsCompleteWitness ==
  /\ pc \in {"build", "done"} /\ Unrestricted
  /\ \E S \in ClosedSets :
       /\ Cardinality(S) = MaxHp
       /\ \E i \in Accepted : SetOf(popped[i].facets) = S
  /\ \E j \in 1..Len(popped) : popped[j].valid = 2

\* C3: each combination is visited once: no two entries popped during one
\* search hold the same set of (hyperplane orbit, facet) pairs.
VisitedOnce ==
  \A i, j \in 1..Len(popped) :
    i # j => SetOf(popped[i].facets) # SetOf(popped[j].facets)

\* C4: when a ridge multiplicity of a candidate facet is not an integer the run
\* aborts: the search never starts on the truncated multiplicity.
NonIntegralAborts ==
  ~Integral => (pc \in {"combine", "aborted"} /\ popped = <<>>)

\* ------------------------------------------------------------ compounds
IsStrictSubset(b, a) == SetOf(b) \subseteq SetOf(a) /\ SetOf(b) # SetOf(a)

\* the lists the accepted combinations leave
AccLists == {Emitted(popped[i].facets) : i \in Accepted}

\* the list is what an accepted combination left, closed on every ridge orbit
ClosedOnItsOwn(list) ==
  \E i \in Accepted :
    /\ Emitted(popped[i].facets) = list
    /\ \A o \in 1..NumOrbits : SeqMul(popped[i].facets, o, 1) \in {0, 2}

\* C7: whenever label_irc records index a as compound (b, c), list b is a strict
\* subset of list a, list c is list a minus list b, a is the sorted union of b
\* and c, and b and c are entries of the accepted list, each closed on its own.
LabelIsSound ==
  pc = "done" =>
    \A a \in DOMAIN compound_map :
      LET b == compound_map[a][1]
          c == compound_map[a][2]
      IN /\ {a, b, c} \subseteq 1..Len(output_facets)
         /\ b # a /\ c # a /\ b < c
         /\ IsStrictSubset(output_facets[b], output_facets[a])
         /\ SetOf(output_facets[c]) = SetOf(output_facets[a]) \ SetOf(output_facets[b])
         /\ Len(output_facets[a]) = Len(output_facets[b]) + Len(output_facets[c])
         /\ SortPairs(output_facets[a]) = SortPairs(output_facets[b] \o output_facets[c])
         /\ ClosedOnItsOwn(output_facets[b])
         /\ ClosedOnItsOwn(output_facets[c])

\* a returned map that records a list of three leaves or more as a compound
LabelIsSoundWitness ==
  /\ pc = "done"
  /\ \E a \in DOMAIN compound_map : Len(output_facets[a]) >= MaxHp

\* C8: label_irc is complete: every accepted list A for which the accepted
\* collection holds a strict subset B of A together with A minus B is recorded as
\* a compound in the returned map.
LabelIsComplete ==
  pc = "done" =>
    \A a, b, c \in 1..Len(output_facets) :
      (/\ IsStrictSubset(output_facets[b], output_facets[a])
       /\ SetOf(output_facets[c]) = SetOf(output_facets[a]) \ SetOf(output_facets[b]))
      => a \in DOMAIN compound_map

\* C9: when compounds are not requested, the lists filter_irc keeps are exactly
\* the accepted lists no other accepted list is a strict subset of, each once and
\* in sorted order.
FilterKeepsMinimal ==
  (pc = "build" /\ ~cfg.include_compounds) =>
    /\ SetOf(output_facets) = {L \in AccLists : ~\E M \in AccLists : IsStrictSubset(M, L)}
    /\ \A i \in 1..(Len(output_facets) - 1) : LessList(output_facets[i], output_facets[i + 1])

\* a filtered collection that lost a list and kept two
FilterKeepsMinimalWitness ==
  /\ pc = "build" /\ ~cfg.include_compounds
  /\ Cardinality(AccLists) > Len(output_facets)
  /\ Len(output_facets) >= 2

\* ------------------------------------------------------------ assembly
\* C5: when the structure assembled for an accepted facet list fails the dyadic
\* check the run aborts; the faceting is never skipped silently with the run going
\* on, and no structure is returned without the check.
DyadicFailureAborts ==
  \A i \in 1..Len(built) :
    /\ ~built[i].dyadic => pc = "aborted"
    /\ built[i].returned => built[i].checked

\* ------------------------------------------------ the steps of the search
\* the entries the step leaves on the work stack above those that were there
PushedOn == {facets_queue'[k] : k \in (Len(Rest) + 1)..Len(facets_queue')}

\* the step keeps the entries below the popped one
KeepsRest ==
  /\ Len(facets_queue') >= Len(Rest)
  /\ SubSeq(facets_queue', 1, Len(Rest)) = Rest

\* the step pops an entry
Pops == pc = "search" /\ facets_queue # <<>>

\* C16: a popped combination in which some ridge orbit is above 2 is a dead
\* branch: nothing is added to the accepted output (nor counted as skipped) and
\* no extension of it is pushed.
ExoticIsDead ==
  [][(Pops /\ \E o \in 1..NumOrbits : NewRidgeMuls[o] > 2)
       => (/\ facets_queue' = Rest
           /\ output_facets' = output_facets
           /\ skipped' = skipped
           /\ pc' = pc)]_vars

\* a dead combination of two facets popped after a combination was accepted, with
\* entries left on the stack
ExoticIsDeadWitness ==
  \E i \in 1..Len(popped) :
    /\ popped[i].valid = 1
    /\ \E o \in 1..NumOrbits : popped[i].muls[o] > 2
    /\ Len(popped[i].facets) >= 2
    /\ popped[i].pushed # <<>>
    /\ \E j \in 1..(i - 1) : popped[j].valid = 0

\* the sum of the stored vectors ridge_muls[hp][f] of the first n facets, on orbit o
RECURSIVE StoredSum(_, _, _)
StoredSum(facets, o, n) ==
  IF n = 0 THEN 0
  ELSE ridge_muls[facets[n][1]][facets[n][2]][o] + StoredSum(facets, o, n - 1)

\* C17: folding is exact: the cached vector of every entry on the work stack is
\* the sum of the stored vectors of its facets but the last, and the running
\* vector after a pop without the early exit is the sum over all its facets.
FoldIsExact ==
  /\ \A k \in 1..Len(facets_queue) :
       \A o \in 1..NumOrbits :
         facets_queue[k][3][o] = StoredSum(facets_queue[k][1], o, Len(facets_queue[k][1]) - 1)
  /\ \A i \in 1..Len(popped) :
       \A o \in 1..NumOrbits :
         /\ popped[i].cached[o] = StoredSum(popped[i].facets, o, Len(popped[i].facets) - 1)
         /\ (\A q \in 1..NumOrbits : popped[i].muls[q] <= 2)
              => popped[i].muls[o] = StoredSum(popped[i].facets, o, Len(popped[i].facets))

\* the hyperplane orbits of a combination
HpsOf(facets) == {facets[i][1] : i \in 1..Len(facets)}

\* the step pops an incomplete combination
PopsIncomplete == Pops /\ Valid(NewRidgeMuls) = 2

\* the facets that may close the open ridge orbit of the popped combination: those
\* of ones[idx] at or above min_hp whose hyperplane orbit the combination lacks
Eligible ==
  {p \in SetOf(ones[FirstOne(NewRidgeMuls, 1)]) :
     p[1] >= Popped[2] /\ p[1] \notin HpsOf(Popped[1])}

ExtensionsBy(S) == {<<Append(Popped[1], p), Popped[2], NewRidgeMuls>> : p \in S}

\* the noble facet count is reached by the popped combination
NobleStop == cfg.mode = "top" /\ cfg.noble # None /\ Len(Popped[1]) = cfg.noble[1]

\* C18 as stated: from every incomplete combination exactly the eligible facets
\* are pushed.
IncompletePushesAll ==
  [][PopsIncomplete => (KeepsRest /\ PushedOn = ExtensionsBy(Eligible))]_vars

\* C18: from an incomplete combination below the noble facet count exactly the
\* eligible facets are pushed, each with the min_hp and the running vector of the
\* combination; at the noble facet count nothing is pushed.
IncompletePushes ==
  [][PopsIncomplete =>
       (/\ KeepsRest
        /\ PushedOn = (IF NobleStop THEN {} ELSE ExtensionsBy(Eligible)))]_vars

\* an incomplete combination of two facets that was extended, the binary search
\* having skipped a part of the list and kept a part
IncompletePushesWitness ==
  \E i \in 1..Len(popped) :
    /\ popped[i].valid = 2
    /\ Len(popped[i].facets) >= 2
    /\ LET idx == FirstOne(popped[i].muls, 1)
           from == binary(ones[idx], popped[i].min_hp)
       IN /\ from > 0 /\ from < Len(ones[idx])
          /\ \E k \in 1..Len(popped[i].pushed) :
               /\ Len(popped[i].pushed[k][1]) = Len(popped[i].facets) + 1
               /\ SubSeq(popped[i].pushed[k][1], 1, Len(popped[i].facets)) = popped[i].facets

\* no two facets of the combination are of the same hyperplane orbit
DistinctHps(facets) ==
  \A i, j \in 1..Len(facets) : i # j => facets[i][1] # facets[j][1]

\* C19: no combination placed on the work stack holds two facets of the same
\* hyperplane orbit, the orbit of its first facet included.
OneFacetPerHp ==
  /\ \A k \in 1..Len(facets_queue) : DistinctHps(facets_queue[k][1])
  /\ \A i \in 1..Len(popped) : DistinctHps(popped[i].facets)

\* a combination of one facet of every hyperplane orbit on the stack, pushed by
\* the accepting branch, whose first facet is not of the least orbit used after it
OneFacetPerHpWitness ==
  \E k \in 1..Len(facets_queue) :
    LET facets == facets_queue[k][1]
    IN /\ Len(facets) = MaxHp
       /\ facets_queue[k][2] = facets[Len(facets)][1]
       /\ facets[2][1] > facets[3][1]

\* C20: every accepted facet list is in ascending order with no pair twice.
AcceptedListsSorted ==
  \A k \in 1..Len(output_facets) :
    \A i \in 1..(Len(output_facets[k]) - 1) :
      LessPair(output_facets[k][i], output_facets[k][i + 1])


(***************************************************************************)
(* GenIter (group/gen_iter.rs): the elements of the group generated by a   *)
(* list of generators, in breadth-first order.  The group items are the    *)
(* permutations of 1..MaxPoints, multiplied by composition.                *)
(***************************************************************************)
MaxPoints == 3      \* the permutations act on 1..MaxPoints
MaxGens == 2        \* the longest list of generators
MaxNone == 2        \* calls of next answered by None that are followed

Perms == {p \in [1..MaxPoints -> 1..MaxPoints] : \A i, j \in 1..MaxPoints : p[i] = p[j] => i = j}

id == [i \in 1..MaxPoints |-> i]

mul(a, b) == [i \in 1..MaxPoints |-> a[b[i]]]

\* GenIter::new: the identity is queued, and has been found zero times.
new(gens) ==
  [gens |-> gens, elements |-> [x \in {id} |-> 0], queue |-> <<id>>, gen_idx |-> 0]

\* insert with the identity treated as any repeat.
insertRepeat(it, el) ==
  IF el \notin DOMAIN it.elements
    THEN [it |-> [it EXCEPT !.elements = [x \in DOMAIN it.elements \cup {el} |->
                                            IF x = el THEN 1 ELSE it.elements[x]],
                            !.queue = Append(it.queue, el)],
          isnew |-> TRUE, pushed |-> <<el>>]
    ELSE LET value == it.elements[el] IN
         [it |-> [it EXCEPT !.elements =
                    IF value # Len(it.gens) - 1
                      THEN [it.elements EXCEPT ![el] = value + 1]
                      ELSE [x \in DOMAIN it.elements \ {el} |-> it.elements[x]]],
          isnew |-> FALSE, pushed |-> <<>>]

\* GenIter::insert: the iterator after el was found once more, whether el
\* counts as new, and what was pushed on the queue.
insert(it, el) ==
  IF el \notin DOMAIN it.elements
    THEN [it |-> [it EXCEPT !.elements = [x \in DOMAIN it.elements \cup {el} |->
                                            IF x = el THEN 1 ELSE it.elements[x]],
                            !.queue = Append(it.queue, el)],
          isnew |-> TRUE, pushed |-> <<el>>]
    ELSE LET value == it.elements[el] IN
         [it |-> [it EXCEPT !.elements =
                    IF value # Len(it.gens) - 1
                      THEN [it.elements EXCEPT ![el] = value + 1]
                      ELSE [x \in DOMAIN it.elements \ {el} |-> it.elements[x]]],
          isnew |-> value = 0, pushed |-> <<>>]

\* next_el_gen taking the element at the back of the queue
next_el_gen_back(it) ==
  IF it.queue = <<>>
    THEN [it |-> it, pair |-> None]
    ELSE LET gen == it.gens[it.gen_idx + 1]
             el == it.queue[Len(it.queue)]
         IN  IF it.gen_idx + 1 = Len(it.gens)
               THEN [it |-> [it EXCEPT !.gen_idx = 0,
                                       !.queue = SubSeq(it.queue, 1, Len(it.queue) - 1)],
                     pair |-> Some(<<el, gen>>)]
               ELSE [it |-> [it EXCEPT !.gen_idx = it.gen_idx + 1],
                     pair |-> Some(<<el, gen>>)]

\* GenIter::next_el_gen: None when the queue is empty; otherwise the front
\* element and the current generator, the front being popped with the last
\* generator.
next_el_gen(it) ==
  IF it.queue = <<>>
    THEN [it |-> it, pair |-> None]
    ELSE LET gen == it.gens[it.gen_idx + 1]
             el == Head(it.queue)
         IN  IF it.gen_idx + 1 = Len(it.gens)
               THEN [it |-> [it EXCEPT !.gen_idx = 0, !.queue = Tail(it.queue)],
                     pair |-> Some(<<el, gen>>)]
               ELSE [it |-> [it EXCEPT !.gen_idx = it.gen_idx + 1],
                     pair |-> Some(<<el, gen>>)]

\* GenIter::try_next: "None", "Repeat" or "New" with the product.
try_next(it) ==
  LET n == next_el_gen(it) IN
  IF n.pair = None
    THEN [it |-> n.it, kind |-> "None", el |-> None, pushed |-> <<>>, log |-> <<>>]
    ELSE LET new_el == mul(n.pair[1][1], n.pair[1][2])
             r == insert(n.it, new_el)
         IN  [it |-> r.it, kind |-> IF r.isnew THEN "New" ELSE "Repeat",
              el |-> Some(new_el), pushed |-> r.pushed,
              log |-> << [el |-> n.pair[1][1], gen_idx |-> it.gen_idx, new_el |-> new_el,
                          left |-> Len(n.it.queue) < Len(it.queue),
                          elements |-> r.it.elements] >>]

\* Iterator::next: try_next until it answers New or None.
RECURSIVE next(_)
next(it) ==
  LET t == try_next(it) IN
  IF t.kind = "Repeat"
    THEN LET r == next(t.it)
         IN [it |-> r.it, ret |-> r.ret, pushed |-> t.pushed \o r.pushed,
             log |-> t.log \o r.log]
    ELSE [it |-> t.it, ret |-> IF t.kind = "None" THEN None ELSE t.el,
          pushed |-> t.pushed, log |-> t.log]

NoneCalls == Cardinality({i \in 1..Len(yielded) : yielded[i] = None})

CallNext ==
  /\ pc = "gen"
  /\ NoneCalls < MaxNone
  /\ LET r == next(gen_iter) IN
       /\ gen_iter' = r.it
       /\ yielded' = Append(yielded, r.ret)
       /\ queued' = queued \o r.pushed
       /\ products' = products \o r.log
  /\ UNCHANGED <<searchVars, orbitVars, sortVars, dyad, request, shape, runs, pc>>
  /\ UNCHANGED <<bsearch, hp_enum, ridge_orbits, stabilizer>>

NextGen == CallNext

GenLists == UNION {[1..n -> Perms] : n \in 1..MaxGens}

InitGen ==
  /\ pc = "gen"
  /\ cfg = <<>> /\ tab = <<>>
  /\ NoSearch /\ NoOrbits /\ NoSort
  /\ dyad = <<>> /\ request = <<>> /\ NoHash
  /\ products = <<>> /\ bsearch = <<>> /\ hp_enum = <<>>
  /\ ridge_orbits = <<>> /\ stabilizer = <<>>
  /\ \E gens \in GenLists : gen_iter = new(gens)
  /\ yielded = <<>>
  /\ queued = <<id>>

SpecGen == InitGen /\ [][NextGen]_vars

\* The elements generated by a list of generators.
RECURSIVE Close(_, _)
Close(S, gens) ==
  LET T == S \cup {mul(a, gens[i]) : a \in S, i \in 1..Len(gens)}
  IN  IF T = S THEN S ELSE Close(T, gens)

Generated(gens) == Close({id}, gens)

Yields == {yielded[i][1] : i \in {j \in 1..Len(yielded) : yielded[j] # None}}

\* C15: GenIter yields every element of the generated group exactly once,
\* the identity included; the identity is queued once; and once next has
\* answered None it answers None for ever.
YieldsEachOnce ==
  pc = "gen" =>
    /\ \A i, j \in 1..Len(yielded) :
         (yielded[i] # None /\ yielded[i] = yielded[j]) => i = j
    /\ Yields \subseteq Generated(gen_iter.gens)
    /\ \A i, j \in 1..Len(queued) : queued[i] = queued[j] => i = j
    /\ \A i \in 1..Len(yielded) :
         yielded[i] = None =>
           /\ {yielded[j][1] : j \in {k \in 1..(i - 1) : yielded[k] # None}} = Generated(gen_iter.gens)
           /\ \A j \in i..Len(yielded) : yielded[j] = None

YieldsEachOnceWitness ==
  /\ pc = "gen"
  /\ Len(gen_iter.gens) = MaxGens
  /\ Generated(gen_iter.gens) = Perms
  /\ Len(yielded) = Cardinality(Perms) + MaxNone
  /\ yielded[Len(yielded)] = None
  /\ \E i \in 2..Cardinality(Perms) : yielded[i] = Some(id)

\* the length of the shortest product of generators that gives x, S being the
\* elements of length at most d
RECURSIVE DepthFrom(_, _, _, _)
DepthFrom(S, x, gens, d) ==
  IF x \in S THEN d
  ELSE DepthFrom(S \cup {mul(a, gens[i]) : a \in S, i \in 1..Len(gens)}, x, gens, d + 1)

Depth(x) == DepthFrom({id}, x, gen_iter.gens, 0)

Exhausted == yielded # <<>> /\ yielded[Len(yielded)] = None

\* every queued element is multiplied by each generator once, in the order of
\* the generators, the elements in the order of the queue, and leaves the
\* queue with the last generator; gen_idx stays below the number of generators
MultipliedInOrder ==
  LET k == Len(gen_iter.gens) IN
  /\ gen_iter.gen_idx < k
  /\ \A i \in 1..Len(products) :
       /\ products[i].gen_idx = (i - 1) % k
       /\ ((i - 1) \div k) + 1 <= Len(queued)
       /\ products[i].el = queued[((i - 1) \div k) + 1]
       /\ products[i].new_el = mul(products[i].el, gen_iter.gens[products[i].gen_idx + 1])
       /\ products[i].left = (products[i].gen_idx = k - 1)
  /\ Exhausted => Len(products) = k * Len(queued)

Produced(x, n) == Cardinality({m \in 1..n : products[m].new_el = x})

\* C28: at every point the lookup table holds exactly the elements produced so
\* far, and fewer times than there are generators, with the identity until
\* its last production; so it is empty once the iterator is exhausted.
TableIsExact ==
  pc = "gen" =>
    LET k == Len(gen_iter.gens) IN
    /\ \A n \in 1..Len(products) :
         DOMAIN products[n].elements =
           {x \in Perms : (x = id \/ Produced(x, n) > 0) /\ Produced(x, n) < k}
    /\ Exhausted => DOMAIN gen_iter.elements = {}


(***************************************************************************)
(* faceting_subdim at rank 2: the only faceting of a segment is itself,    *)
(* snub or not.  The vertex map is any list of permutations of the points  *)
(* of the line (two or more when vertices are collinear); the endpoints 0  *)
(* and 1 of the source are the vertices 1 and 2 here.  The facet pairs and *)
(* the elements of the ridges keep the numbers of the source.              *)
(***************************************************************************)
\* Abstract::dyad().ranks()
DyadRanks == "dyad"

Element(subs) == [subs |-> subs, sups |-> <<>>]

\* the rank structure of a point whose only element has the given subs
PointRanks(subs) == << <<>>, <<Element(subs)>>, <<Element(<<0>>)>> >>

\* the loop over the rows with every segment taken as snub
IsSnubAlways(vm) == TRUE

\* let mut snub = true; for row in &vertex_map { if row[0] == 1 { snub = false; break } }
IsSnub(vm) == ~ \E i \in 1..Len(vm) : vm[i][1] = 2

SnubDyad ==
  [facetings |-> << <<DyadRanks, << <<0, 0>>, <<1, 0>> >> >> >>,
   counts |-> <<1, 1>>,
   ridges |-> << <<PointRanks(<<0>>)>>, <<PointRanks(<<1>>)>> >>,
   compound_map |-> <<>>]

PlainDyad ==
  [facetings |-> << <<DyadRanks, << <<0, 0>> >> >> >>,
   counts |-> <<2>>,
   ridges |-> << <<PointRanks(<<0>>)>> >>,
   compound_map |-> <<>>]

FacetDyad ==
  /\ pc = "dyad"
  /\ request.rank = 2
  /\ dyad' = IF IsSnub(vertex_map) THEN SnubDyad ELSE PlainDyad
  /\ pc' = "done"
  /\ UNCHANGED <<searchVars, orbitVars, sortVars, gen_iter, yielded, queued, request, shape, runs, lateVars>>

NextDyad == FacetDyad

InitDyad ==
  /\ pc = "dyad"
  /\ request = [rank |-> 2]
  /\ \E n \in 2..MaxVertices :
       vertex_map \in UNION {[1..k -> Rows(n)] : k \in 1..MaxRows}
  /\ vertex_orbits = <<>> /\ orbit_of_vertex = <<>>
  /\ checked_vertices = <<>> /\ orbit_idx = 0 /\ v = 0
  /\ cfg = <<>> /\ tab = <<>>
  /\ NoSearch /\ NoSort /\ NoGenIter /\ NoHash /\ NoLate
  /\ dyad = <<>>

SpecDyad == InitDyad /\ [][NextDyad]_vars

FixesEndpoint0 == \E i \in 1..Len(vertex_map) : vertex_map[i][1] = 1
SwapsEndpoint0 == \E i \in 1..Len(vertex_map) : vertex_map[i][1] = 2

OneSegment ==
  /\ Len(dyad.facetings) = 1
  /\ dyad.facetings[1][1] = DyadRanks
  /\ DOMAIN dyad.compound_map = {}

IsSnubResult == Len(dyad.ridges) = 2 /\ dyad.counts = <<1, 1>>
IsPlainResult == Len(dyad.ridges) = 1 /\ dyad.counts = <<2>>

\* C11 as stated: the segment comes back snub exactly when no row of the
\* vertex map fixes endpoint 0, and plain otherwise; one faceting and an
\* empty compound map either way.
DyadSnubUnlessFixed ==
  (pc = "done" /\ request = [rank |-> 2]) =>
    /\ OneSegment
    /\ IF ~FixesEndpoint0 THEN IsSnubResult ELSE IsPlainResult

\* C11: the segment comes back snub (two ridge entries, counts [1, 1])
\* exactly when no row of the vertex map sends endpoint 0 to endpoint 1, and
\* plain (one ridge entry, count [2]) otherwise; one faceting, the segment,
\* and an empty compound map either way.
DyadSnubUnlessSwapped ==
  (pc = "done" /\ request = [rank |-> 2]) =>
    /\ OneSegment
    /\ IF ~SwapsEndpoint0 THEN IsSnubResult ELSE IsPlainResult

DyadSnubUnlessSwappedWitness ==
  /\ pc = "done" /\ request = [rank |-> 2]
  /\ FixesEndpoint0 /\ ~SwapsEndpoint0
  /\ IsSnubResult /\ OneSegment
  /\ Len(vertex_map) > 1

(***************************************************************************)
(* The entry of Concrete::faceting.  A request names the rank of the       *)
(* polytope, its number of vertices and the edge length options; the       *)
(* vertex map is given with it.  A request of too low a rank is answered   *)
(* at once.  Otherwise the hyperplanes are enumerated, which is taken as   *)
(* one step that produces the tables, and the search runs as above.  The   *)
(* requests that pass the rank check make one pass of the edge length      *)
(* loop.                                                                   *)
(***************************************************************************)
MaxRank == 5        \* the highest rank of a polytope asked to be faceted

\* the rank check with the polygons let through
BelowMinRankPolygon(rank) == rank < 3

\* the rank check with nothing turned away
BelowMinRankNever(rank) == FALSE

\* if rank < 4
BelowMinRank(rank) == rank < 4

\* rank < 4: return Vec::new()
Reject ==
  /\ pc = "entry"
  /\ BelowMinRank(request.rank)
  /\ output' = <<>>
  /\ pc' = "done"
  /\ UNCHANGED <<orbitVars, sortVars, moreVars>>
  /\ UNCHANGED <<cfg, tab, ridge_muls, ones, facets_queue, output_facets, skipped,
                 compound_map, build_pos, faceting_idx, popped, built>>

\* the vertex orbits, the hyperplane orbits and their tables
Enumerate ==
  /\ pc = "entry"
  /\ ~BelowMinRank(request.rank)
  /\ \E pf \in FewPossibleFacets :
       \E fc \in [1..Len(pf) -> 1..MaxCount] : \E rc \in [1..MaxOrbits -> 1..MaxCount] :
         tab' = Table(pf, fc, rc, MaxCount, {}, {})
  /\ pc' = "combine"
  /\ UNCHANGED <<orbitVars, sortVars, moreVars>>
  /\ UNCHANGED <<cfg, ridge_muls, ones, facets_queue, output_facets, skipped,
                 compound_map, output, build_pos, faceting_idx, popped, built>>

NextEntry ==
  \/ Reject
  \/ Enumerate
  \/ StartCombining
  \/ PopValidTop
  \/ PopExotic
  \/ PopIncomplete
  \/ SortAndFilter
  \/ BuildFaceting
  \/ ReturnTop

\* the vertex map of the square with the vertices numbered around it: the four
\* rotations, then the four reflections
SquareMap ==
  [k \in 1..8 |-> [i \in 1..4 |-> IF k <= 4 THEN ((i + k - 2) % 4) + 1
                                  ELSE ((k - i + 4) % 4) + 1]]

TrivialMap == << [i \in 1..4 |-> i] >>

Requests ==
  {[rank |-> r, vertices |-> 4, any_single_edge_length |-> a,
    min_edge_length |-> l, max_edge_length |-> l] :
     r \in 0..MaxRank, a \in BOOLEAN, l \in {None, Some("side")}}

InitEntry ==
  /\ pc = "entry"
  /\ \E rq \in Requests :
       /\ rq.any_single_edge_length => rq.rank < 4
       /\ request = rq
  /\ \E c \in TopCfgs({TRUE}) : cfg = c
  /\ \E vm \in {SquareMap, TrivialMap} : vertex_map = vm
  /\ vertex_orbits = <<>> /\ orbit_of_vertex = <<>>
  /\ checked_vertices = <<>> /\ orbit_idx = 0 /\ v = 0
  /\ tab = <<>>
  /\ NoSearch /\ NoSort /\ NoGenIter /\ NoHash /\ NoLate
  /\ dyad = <<>>

SpecEntry == InitEntry /\ [][NextEntry]_vars

NothingRan ==
  /\ tab = <<>> /\ ridge_muls = <<>> /\ ones = <<>>
  /\ facets_queue = <<>> /\ popped = <<>> /\ output_facets = <<>> /\ built = <<>>

\* C12: a request for a polytope of a rank below the least supported one is
\* turned away at once: no hyperplane is enumerated, no search runs, the run
\* does not abort, and the result is empty.
LowRankIsRejected ==
  request.rank < 4 =>
    /\ NothingRan
    /\ pc \in {"entry", "done"}
    /\ output = <<>>

LowRankIsRejectedWitness ==
  /\ request.rank = 1
  /\ vertex_map = TrivialMap
  /\ pc = "done" /\ output = <<>> /\ NothingRan

IsSquare ==
  /\ request.rank = 3 /\ request.vertices = 4
  /\ vertex_map = SquareMap
  /\ request.any_single_edge_length
       \/ (request.min_edge_length = Some("side") /\ request.max_edge_length = Some("side"))

RECURSIVE Flatten(_)
Flatten(ss) == IF ss = <<>> THEN <<>> ELSE ss[1] \o Flatten(Tail(ss))

\* the keys of a map in the order of their first insertion
RECURSIVE FirstSeen(_)
FirstSeen(s) ==
  IF s = <<>> THEN <<>>
  ELSE LET d == FirstSeen(SubSeq(s, 1, Len(s) - 1))
       IN IF \E i \in 1..Len(d) : d[i] = s[Len(s)] THEN d ELSE Append(d, s[Len(s)])

IndexOf(s, x) == CHOOSE i \in 1..Len(s) : s[i] = x

SubsOf(els) == [j \in 1..Len(els) |-> els[j].subs]

ElementsOf(subs) == [e \in 1..Len(subs) |-> [subs |-> subs[e], sups |-> <<>>]]

VertexRank(n) == [i \in 1..n |-> [subs |-> <<1>>, sups |-> <<>>]]

\* one turn of "for r in 2..rank-1", at place R: the elements of place R of
\* all facets are numbered in the order they are met, and the elements of
\* place R + 1 take the numbers
Turn(facet_vec, R) ==
  LET idx_to_subs == FirstSeen(Flatten([i \in 1..Len(facet_vec) |-> SubsOf(facet_vec[i][R])]))
  IN [vec |-> [i \in 1..Len(facet_vec) |->
                 [facet_vec[i] EXCEPT ![R + 1] =
                    [j \in 1..Len(facet_vec[i][R + 1]) |->
                       [subs |-> [k \in 1..Len(facet_vec[i][R + 1][j].subs) |->
                                    IndexOf(idx_to_subs,
                                            facet_vec[i][R][facet_vec[i][R + 1][j].subs[k]].subs)],
                        sups |-> <<>>]]]],
      new_rank |-> ElementsOf(idx_to_subs)]

RECURSIVE Turns(_, _, _, _)
Turns(facet_vec, rs, R, last) ==
  IF R > last THEN [vec |-> facet_vec, ranks |-> rs]
  ELSE LET t == Turn(facet_vec, R)
       IN Turns(t.vec, Append(rs, t.new_rank), R + 1, last)

\* the facets, each once, and the body
FacetsAndBody(facet_vec, rs, rank) ==
  LET new_rank == FirstSeen([f \in 1..Len(facet_vec) |-> SortNat(facet_vec[f][rank][1].subs)])
  IN rs \o << ElementsOf(new_rank),
              << [subs |-> [e \in 1..Len(new_rank) |-> e], sups |-> <<>>] >> >>

\* faceting_subdim, not uniform: the structure of rank `rank` built from
\* facet_vec over total_vert_count points
SubdimRanks(facet_vec, rank, total_vert_count) ==
  LET t == Turns(facet_vec, <<Least, VertexRank(total_vert_count)>>, 3, rank - 1)
  IN FacetsAndBody(t.vec, t.ranks, rank)

\* the local value that map_to_local holds for s: the last one inserted
MapToLocal(up, loc, s) ==
  LET places == UNION {{<<i, j>> : j \in {k \in 1..Len(up[i].subs) : up[i].subs[k] = s}} :
                         i \in 1..Len(up)}
      last == CHOOSE p \in places :
                \A q \in places : q[1] < p[1] \/ (q[1] = p[1] /\ q[2] <= p[2])
  IN loc[last[1]].subs[last[2]]

\* one turn of the loop over the ranks of element_sort_strong_with_local
SortRankWithLocal(self, local, rank) ==
  LET all_subs == [i \in 1..Len(self[rank]) |-> self[rank][i].subs]
      sorted == SortSubs(all_subs)
      perm == [i \in 1..Len(all_subs) |-> Position(sorted, all_subs[i], 1)]
      this == [i \in 1..Len(self[rank]) |->
                 [self[rank][i] EXCEPT !.subs = SortNat(sorted[i])]]
      new_list == [i \in 1..Len(self[rank + 1]) |->
                     [subs |-> SortNat([k \in 1..Len(self[rank + 1][i].subs) |->
                                          perm[MapToLocal(self[rank + 1], local[rank + 1],
                                                          self[rank + 1][i].subs[k])]]),
                      sups |-> <<>>]]
  IN [self EXCEPT ![rank] = this, ![rank + 1] = new_list]

RECURSIVE SortRanksWithLocalFrom(_, _, _)
SortRanksWithLocalFrom(self, local, rank) ==
  IF rank > Len(self) - 1 THEN self
  ELSE SortRanksWithLocalFrom(SortRankWithLocal(self, local, rank), local, rank + 1)

\* the sort that leaves the elements of every rank where they are
SortEdgeSubsWithLocal(self, local) == SortEdgeSubs(self)

element_sort_strong_with_local(self, local) ==
  SortRanksWithLocalFrom(SortEdgeSubs(self), local, 3)

\* the vertices of place 3 taken through a list: hp_v, or a row of the vertex map
MapEdges(list, through) ==
  [i \in 1..Len(list) |->
     [subs |-> [k \in 1..Len(list[i].subs) |-> through[list[i].subs[k]]], sups |-> <<>>]]

\* possible_facets_global: the indices of the edges made global
Globalise(f, hp_v) == [f EXCEPT ![3] = MapEdges(f[3], hp_v)]

\* for row in &vertex_map: the images of the facet not yet in of_this_orbit
RECURSIVE RowImages(_, _, _, _, _)
RowImages(facet, facet_local, i, of_this_orbit, facet_vec) ==
  IF i > Len(vertex_map) THEN facet_vec
  ELSE LET new_list == MapEdges(facet[3], vertex_map[i])
           edges == SortSubs([e \in 1..Len(new_list) |-> SortNat(new_list[e].subs)])
       IN IF edges \in of_this_orbit
            THEN RowImages(facet, facet_local, i + 1, of_this_orbit, facet_vec)
            ELSE RowImages(facet, facet_local, i + 1, of_this_orbit \cup {edges},
                   Append(facet_vec,
                          element_sort_strong_with_local([facet EXCEPT ![3] = new_list],
                                                         facet_local)))

\* to_old_idx: the vertices of the facets in the order they are met
ToOldIdx(facet_vec) ==
  FirstSeen(Flatten([i \in 1..Len(facet_vec) |-> Flatten(SubsOf(facet_vec[i][3]))]))

\* Concrete::faceting: the structure of rank `rank` built from facet_vec, with
\* the vertices numbered anew
TopRanks(facet_vec, rank) ==
  LET to_old_idx == ToOldIdx(facet_vec)
      renamed == [i \in 1..Len(facet_vec) |->
                    [facet_vec[i] EXCEPT ![3] =
                       [j \in 1..Len(facet_vec[i][3]) |->
                          [subs |-> [k \in 1..Len(facet_vec[i][3][j].subs) |->
                                       IndexOf(to_old_idx, facet_vec[i][3][j].subs[k])],
                           sups |-> <<>>]]]]
      t == Turns(renamed, <<Least, VertexRank(Len(to_old_idx))>>, 3, rank - 1)
  IN FacetsAndBody(t.vec, t.ranks, rank)

\* a segment between the points a and b of the plane, as the set holds it
Segment(pair) == <<Least, VertexRank(2), << [subs |-> pair, sups |-> <<>>] >> >>

\* a triangle on three points of the space, as the set holds it: sorted
Triangle(t) ==
  <<Least, VertexRank(3), ElementsOf(<< <<t[1], t[2]>>, <<t[1], t[3]>>, <<t[2], t[3]>> >>),
    << [subs |-> <<1, 2, 3>>, sups |-> <<>>] >> >>

\* the orders in which a set can be handed out
Orders(S) == {o \in [1..Cardinality(S) -> S] : \A i, j \in DOMAIN o : o[i] = o[j] => i = j}

\* Vec::from_iter(facet_set) and the polygon built from it, in one of the two runs
AssembleSubdim ==
  /\ pc = "assemble"
  /\ \E i \in 1..2 :
       /\ runs[i].stage = "set"
       /\ \E facet_vec \in Orders(shape.facet_set) :
            runs' = [runs EXCEPT ![i] =
                       [stage |-> "faceted",
                        faceting |-> SubdimRanks(facet_vec, shape.rank, Len(shape.hp_v)),
                        facet_vec |-> <<>>, ranks |-> <<>>, new_vertices |-> <<>>]]
  /\ UNCHANGED <<searchVars, orbitVars, sortVars, gen_iter, yielded, queued, dyad, request, shape, pc, lateVars>>

\* the polyhedron built from the images of the polygon, in one of the two runs
BuildTop ==
  /\ pc = "assemble"
  /\ \E i \in 1..2 :
       /\ runs[i].stage = "faceted"
       /\ LET facet_local == runs[i].faceting
              facet == Globalise(facet_local, shape.hp_v)
              facet_vec == RowImages(facet, facet_local, 1, {}, <<>>)
          IN runs' = [runs EXCEPT ![i] =
                        [stage |-> "built", faceting |-> facet_local,
                         facet_vec |-> facet_vec,
                         ranks |-> TopRanks(facet_vec, shape.rank + 1),
                         new_vertices |-> ToOldIdx(facet_vec)]]
  /\ UNCHANGED <<searchVars, orbitVars, sortVars, gen_iter, yielded, queued, dyad, request, shape, pc, lateVars>>

NextHash == AssembleSubdim \/ BuildTop

\* the sorted pairs of points of the plane
Pairs == {p \in (1..MaxVertices) \X (1..MaxVertices) : p[1] < p[2]}

\* the sorted triples of points of the space
Triples == {t \in (1..MaxVertices) \X (2..(MaxVertices + 1)) \X (2..(MaxVertices + 1)) :
              t[1] < t[2] /\ t[2] < t[3]}

\* the places of n points among n + 1 vertices
Embeddings(n) ==
  {h \in [1..n -> 1..(n + 1)] : \A i, j \in 1..n : i < j => h[i] < h[j]}

\* the rows that swap two of n vertices
Swaps(n) == {r \in Rows(n) : Cardinality({i \in 1..n : r[i] # i}) = 2}

NotYet ==
  [stage |-> "set", faceting |-> <<>>, facet_vec |-> <<>>, ranks |-> <<>>,
   new_vertices |-> <<>>]

\* any set of segments of the plane, or of up to MaxFacets triangles of the
\* space, any place of the plane or space in the polytope, and a vertex map of
\* the identity alone or with one more row: any row for the polygons, a swap
\* of two vertices for the polyhedra
InitHash ==
  /\ pc = "assemble"
  /\ \/ /\ \E S \in SUBSET Pairs : \E h \in Embeddings(MaxVertices) :
            /\ S # {}
            /\ shape = [rank |-> 3, facet_set |-> {Segment(p) : p \in S}, hp_v |-> h]
        /\ \E row \in Rows(MaxVertices + 1) :
            \/ vertex_map = <<[i \in 1..(MaxVertices + 1) |-> i]>>
            \/ vertex_map = <<[i \in 1..(MaxVertices + 1) |-> i], row>>
     \/ /\ \E S \in SUBSET Triples : \E h \in Embeddings(MaxVertices + 1) :
            /\ S # {} /\ Cardinality(S) <= MaxFacets
            /\ shape = [rank |-> 4, facet_set |-> {Triangle(t) : t \in S}, hp_v |-> h]
        /\ \E row \in Swaps(MaxVertices + 2) :
            \/ vertex_map = <<[i \in 1..(MaxVertices + 2) |-> i]>>
            \/ vertex_map = <<[i \in 1..(MaxVertices + 2) |-> i], row>>
  /\ vertex_orbits = <<>> /\ orbit_of_vertex = <<>>
  /\ checked_vertices = <<>> /\ orbit_idx = 0 /\ v = 0
  /\ runs = <<NotYet, NotYet>>
  /\ cfg = <<>> /\ tab = <<>>
  /\ NoSearch /\ NoSort /\ NoGenIter /\ NoLate
  /\ dyad = <<>> /\ request = <<>>

SpecHash == InitHash /\ [][NextHash]_vars

\* C13: two runs on the same input give the same output: the same facets in
\* the same order, the same assembled rank structure and the same vertices in
\* the same order, in whatever order the hash sets hand out their elements.
RunsAgree ==
  (pc = "assemble" /\ runs[1].stage = "built" /\ runs[2].stage = "built") =>
    /\ runs[1].facet_vec = runs[2].facet_vec
    /\ runs[1].ranks = runs[2].ranks
    /\ runs[1].new_vertices = runs[2].new_vertices

\* two finished runs whose sets handed out three triangles in different orders,
\* so that the polyhedra differ in their edges and in their faces, with a row of
\* the vertex map that gives a second facet
RunsAgreeWitness ==
  /\ pc = "assemble"
  /\ runs[1].stage = "built" /\ runs[2].stage = "built"
  /\ shape.rank = 4 /\ Cardinality(shape.facet_set) = 3
  /\ runs[1].faceting[3] # runs[2].faceting[3]
  /\ runs[1].faceting[4] # runs[2].faceting[4]
  /\ Len(runs[1].facet_vec) = 2
  /\ runs[1].ranks = runs[2].ranks

\* ------------------------------------------------------------ termination
\* The search with its steps taken as long as one is possible: the loop over
\* the work stack runs on until the stack is empty, the cap or an abort.
InitLive ==
  /\ cfg \in TopCfgs({TRUE}) \cup SubdimCfgs({FALSE})
  /\ InitTables(PossibleFacets(MaxHp, MaxHp), 1, {{}}, {{}})
  /\ InitRun

SpecLive == InitLive /\ [][Next]_vars /\ WF_vars(Next)

SearchOver == pc \notin {"combine", "search"}

\* every entry pushed is the popped combination with one more facet, of a
\* hyperplane orbit the popped combination does not hold
PushesLonger ==
  Pops => \A e \in PushedOn :
            /\ Len(e[1]) = Len(Popped[1]) + 1
            /\ SubSeq(e[1], 1, Len(Popped[1])) = Popped[1]
            /\ e[1][Len(e[1])][1] \notin HpsOf(Popped[1])

\* C29: the search terminates: every pushed extension is strictly longer than
\* the popped combination and uses a hyperplane orbit not yet in it, no
\* combination is longer than the number of hyperplane orbits, and the loop
\* over the work stack comes to its end.
SearchTerminates ==
  /\ [][PushesLonger]_vars
  /\ [](\A k \in 1..Len(facets_queue) : Len(facets_queue[k][1]) <= NumHp)
  /\ <>SearchOver
  /\ [](pc = "done" => facets_queue = <<>> \/ cfg.max_per_hyperplane # None)

SearchTerminatesWitness ==
  /\ pc = "done" /\ facets_queue = <<>>
  /\ NumHp = MaxHp
  /\ \E i \in 1..Len(popped) : Len(popped[i].facets) = MaxHp
  /\ Len(popped) > MaxHp + 2

\* --------------------------------------------------- compounds of compounds
\* The searches over one or two hyperplane orbits whose facets have up to
\* three local ridges, so that a component of a compound facet can be a
\* compound itself.
FacetShapes3 ==
  {s \in UNION {[1..n -> LocalRidges] : n \in 1..3} :
     \A i \in 1..(Len(s) - 1) : LessPair(s[i], s[i + 1])}

FacetLists3(k) ==
  {l \in [1..k -> FacetShapes3] : \A i \in 1..(k - 1) : LessList(l[i], l[i + 1])}

InitSplit ==
  /\ cfg \in TopCfgs({TRUE}) \cup SubdimCfgs({FALSE})
  /\ InitTables({<<l>> : l \in UNION {FacetLists3(k) : k \in 3..5}}
                  \cup {<<l, m>> : l \in FacetLists3(5), m \in FacetLists3(1)},
                MaxCount, {{}}, {{}})
  /\ InitRun

SpecSplit == InitSplit /\ [][Next]_vars

\* the facets reachable from the facets S of hyperplane orbit hp through its
\* compound map
RECURSIVE ReachFrom(_, _)
ReachFrom(hp, S) ==
  LET map == tab.compound_facets[hp]
      T == S \cup UNION {{map[x][1], map[x][2]} : x \in S \cap DOMAIN map}
  IN IF T = S THEN S ELSE ReachFrom(hp, T)

Leaves(hp, idx) == ReachFrom(hp, {idx}) \ DOMAIN tab.compound_facets[hp]

ValidPops == {i \in 1..Len(popped) : popped[i].valid = 0}

\* the list emitted for the n-th valid combination
EmittedFor(n) == IF cfg.mode = "subdim" THEN built[n].facets ELSE output_facets[n]

\* C21: the splitting of compounds reaches the leaves: in every accepted list
\* each emitted pair (hp, idx) is a leaf, idx being no key of the compound map
\* of hp, and the pairs emitted for a chosen facet are exactly the leaves
\* reachable from it through the compound map.
SplitReachesLeaves ==
  (pc = "search" /\ ones # <<>>) =>
    \A i \in ValidPops :
      LET n == Cardinality({j \in ValidPops : j <= i})
          E == EmittedFor(n)
          chosen == popped[i].facets
      IN /\ \A k \in 1..Len(E) : E[k][2] \notin DOMAIN tab.compound_facets[E[k][1]]
         /\ \A c \in 1..Len(chosen) :
              {k \in 1..Len(E) : E[k][1] = chosen[c][1]} # {}
              /\ {E[k][2] : k \in {m \in 1..Len(E) : E[m][1] = chosen[c][1]}}
                   = Leaves(chosen[c][1], chosen[c][2])
         /\ \A k \in 1..Len(E) : \E c \in 1..Len(chosen) : E[k][1] = chosen[c][1]

\* an accepted combination with a chosen facet that is a compound of a facet
\* and a compound, split into its three leaves
SplitReachesLeavesWitness ==
  /\ pc = "search"
  /\ \E i \in ValidPops : \E c \in 1..Len(popped[i].facets) :
       LET hp == popped[i].facets[c][1]
           idx == popped[i].facets[c][2]
           map == tab.compound_facets[hp]
       IN /\ idx \in DOMAIN map
          /\ (map[idx][1] \in DOMAIN map \/ map[idx][2] \in DOMAIN map)
          /\ Cardinality(Leaves(hp, idx)) = 3
          /\ Len(EmittedFor(Cardinality({j \in ValidPops : j <= i}))) >= 3

\* ------------------------------------------------------ binary on its own
MaxLen == 3
MaxKey == 3

\* the indices vec[c as usize] read by the while loop of binary, in order
RECURSIVE binaryReads(_, _, _, _)
binaryReads(vec, min, lo, hi) ==
  IF hi - lo > 1
  THEN LET c == TruncDiv2(lo + hi)
       IN IF c + 1 \notin 1..Len(vec) THEN <<c>>
          ELSE IF vec[c + 1][1] > min THEN <<c>> \o binaryReads(vec, min, lo, c)
          ELSE <<c>> \o binaryReads(vec, min, c, hi)
  ELSE <<>>

\* lists of pairs sorted by their first component
SortedVecs ==
  {vec \in UNION {[1..n -> (0..MaxKey) \X (0..1)] : n \in 0..MaxLen} :
     \A i \in 1..(Len(vec) - 1) : vec[i][1] <= vec[i + 1][1]}

InitBinary ==
  /\ pc = "binary"
  /\ cfg = <<>> /\ tab = <<>>
  /\ NoSearch /\ NoOrbits /\ NoSort
  /\ NoGenIter /\ dyad = <<>> /\ request = <<>> /\ NoHash
  /\ products = <<>> /\ hp_enum = <<>> /\ ridge_orbits = <<>> /\ stabilizer = <<>>
  /\ \E vec \in SortedVecs : \E min \in 0..(MaxKey + 1) :
       bsearch = [vec |-> vec, min |-> min, reads |-> <<>>, ret |-> None]

CallBinary ==
  /\ pc = "binary"
  /\ bsearch.ret = None
  /\ bsearch' = [bsearch EXCEPT
                   !.ret = Some(binary(bsearch.vec, bsearch.min)),
                   !.reads = binaryReads(bsearch.vec, bsearch.min, -1, Len(bsearch.vec))]
  /\ UNCHANGED <<searchVars, orbitVars, sortVars, pc>>
  /\ UNCHANGED <<gen_iter, yielded, queued, dyad, request, shape, runs>>
  /\ UNCHANGED <<products, hp_enum, ridge_orbits, stabilizer>>

NextBinary == CallBinary

SpecBinary == InitBinary /\ [][NextBinary]_vars

\* C26: for a list sorted by first component binary returns the smallest index
\* i with vec[i].0 > min, or vec.len() when there is none (0 for the empty
\* list), and reads no index outside 0..vec.len().
BinaryFindsFirstGreater ==
  (pc = "binary" /\ bsearch.ret # None) =>
    LET vec == bsearch.vec
        greater == {i \in 0..(Len(vec) - 1) : vec[i + 1][1] > bsearch.min}
        ret == bsearch.ret[1]
    IN /\ ret \in 0..Len(vec)
       /\ greater # {} => ret \in greater /\ \A i \in greater : ret <= i
       /\ greater = {} => ret = Len(vec)
       /\ vec = <<>> => ret = 0
       /\ \A k \in 1..Len(bsearch.reads) : bsearch.reads[k] \in 0..(Len(vec) - 1)

\* a search of a full list with repeated keys that returns an index strictly
\* inside the list after more than one read
BinaryFindsFirstGreaterWitness ==
  /\ pc = "binary" /\ bsearch.ret # None
  /\ Len(bsearch.vec) = MaxLen
  /\ bsearch.vec[1][1] = bsearch.vec[2][1]
  /\ bsearch.vec[2][1] = bsearch.min
  /\ bsearch.ret = Some(2)
  /\ Len(bsearch.reads) >= 2

\* ------------------------------------------------- the per-hyperplane cap
\* faceting_subdim called with a cap: the search over unit counts with the
\* uniform filter on or off, and the rank-2 base case.
CapCfgs ==
  {[mode |-> "subdim", include_compounds |-> TRUE, noble |-> None, noble_package |-> np,
    max_per_hyperplane |-> Some(m), uniform |-> un, save |-> FALSE] :
     np \in BOOLEAN, m \in 0..MaxCap, un \in BOOLEAN}

InitCap ==
  /\ cfg \in CapCfgs
  /\ \/ /\ InitTables(PossibleFacets(MaxHp, MaxHp), 1, {{}}, {{}, {<<1, 1>>}})
        /\ InitRun
     \/ /\ pc = "dyad"
        /\ request = [rank |-> 2]
        /\ vertex_map \in UNION {[1..k -> Rows(2)] : k \in 1..2}
        /\ vertex_orbits = <<>> /\ orbit_of_vertex = <<>>
        /\ checked_vertices = <<>> /\ orbit_idx = 0 /\ v = 0
        /\ tab = <<>>
        /\ NoSearch /\ NoSort /\ NoGenIter /\ NoHash /\ NoLate
        /\ dyad = <<>>

NextCap ==
  \/ StartCombining
  \/ PopValidSubdim
  \/ PopExotic
  \/ PopIncomplete
  \/ ReturnSubdim
  \/ FacetDyad

SpecCap == InitCap /\ [][NextCap]_vars

\* the facetings a finished call returns
Returned == IF dyad # <<>> THEN Len(dyad.facetings) ELSE Len(output_facets)

\* C25: with a per-hyperplane cap m faceting_subdim returns at most m
\* facetings, the accepted and the skipped together never exceeding m, and a
\* search stopped at the cap returns as any other.
CapIsRespected ==
  LET m == cfg.max_per_hyperplane[1] IN
    /\ Len(output_facets) + skipped <= m
    /\ pc = "done" => Returned <= m
    /\ pc = "capped" => ENABLED ReturnSubdim

\* the same for caps of at least one
CapIsRespectedFromOne == cfg.max_per_hyperplane[1] >= 1 => CapIsRespected

\* a search stopped at the cap with combinations left on the stack, one
\* faceting skipped by the uniform filter, and then returned
CapStopsSearch ==
  /\ pc = "done" /\ dyad = <<>>
  /\ facets_queue # <<>>
  /\ skipped >= 1
  /\ Len(output_facets) + skipped = cfg.max_per_hyperplane[1]

\* ------------------------------------- the tuples of the recursive enumerator
\* The loops 'b and 'c of faceting_subdim for one pair orbit. Vertices and the
\* positions of new_vertices are the 0-based values of the code; far holds the
\* vertices whose distance from rep[0] is outside the edge-length window.
MaxEnumRank == 6
MaxEnumVerts == 7

\* new_vertices[i] for the 0-based position i
NewVertex(i) == hp_enum.new_vertices[i + 1]

\* a first tuple that starts at the larger vertex of the pair
FirstVerticesFromPair(rep, rank) == [i \in 1..(rank - 3) |-> rep[2] + i - 1]

\* (rep[1]+1..rep[1]+rank-2).collect()
FirstVertices(rep, rank) == [i \in 1..(rank - 3) |-> rep[2] + i]

\* the first position whose vertex is outside the points, or fails the window
RECURSIVE FirstFailure(_)
FirstFailure(i) ==
  IF i >= Len(hp_enum.new_vertices) THEN [kind |-> "none", v_i |-> i]
  ELSE IF NewVertex(i) >= hp_enum.total_vert_count THEN [kind |-> "panic", v_i |-> i]
  ELSE IF NewVertex(i) \in hp_enum.far THEN [kind |-> "far", v_i |-> i]
  ELSE FirstFailure(i + 1)

\* for pair_orbit in pair_orbits: the guard and the first tuple
EnterPair ==
  /\ pc = "tuples" /\ hp_enum.at = "pair"
  /\ IF hp_enum.rep[2] + hp_enum.rank - 2 > hp_enum.total_vert_count
     THEN hp_enum' = [hp_enum EXCEPT !.at = "done"]
     ELSE hp_enum' = [hp_enum EXCEPT
                        !.at = "walk",
                        !.new_vertices = FirstVertices(hp_enum.rep, hp_enum.rank),
                        !.update = IF hp_enum.rank > 3 THEN hp_enum.rank - 4 ELSE 0]
  /\ UNCHANGED <<searchVars, orbitVars, sortVars, pc>>
  /\ UNCHANGED <<gen_iter, yielded, queued, dyad, request, shape, runs>>
  /\ UNCHANGED <<products, bsearch, ridge_orbits, stabilizer>>

\* 'c: the window test of the tuple, the hyperplane through it when it
\* passes, and 'if rank <= 3 { break }'
WalkTuple ==
  /\ pc = "tuples" /\ hp_enum.at = "walk"
  /\ LET f == FirstFailure(0)
         after == IF hp_enum.rank <= 3 THEN "done" ELSE "increment"
     IN hp_enum' =
          IF f.kind = "panic" THEN [hp_enum EXCEPT !.at = "panic"]
          ELSE IF f.kind = "far"
          THEN [hp_enum EXCEPT !.at = after, !.update = f.v_i,
                               !.tested = Append(@, hp_enum.new_vertices)]
          ELSE [hp_enum EXCEPT !.at = after,
                               !.tested = Append(@, hp_enum.new_vertices),
                               !.visited = Append(@, hp_enum.new_vertices)]
  /\ UNCHANGED <<searchVars, orbitVars, sortVars, pc>>
  /\ UNCHANGED <<gen_iter, yielded, queued, dyad, request, shape, runs>>
  /\ UNCHANGED <<products, bsearch, ridge_orbits, stabilizer>>

\* one turn of the loop that increments new_vertices
IncrementTuple ==
  /\ pc = "tuples" /\ hp_enum.at = "increment"
  /\ LET u == hp_enum.update
         rank == hp_enum.rank
     IN hp_enum' =
          IF u >= Len(hp_enum.new_vertices) THEN [hp_enum EXCEPT !.at = "panic"]
          ELSE IF NewVertex(u) = hp_enum.total_vert_count + u - rank + 3
          THEN IF u < 1 THEN [hp_enum EXCEPT !.at = "done"]
               ELSE [hp_enum EXCEPT !.update = u - 1]
          ELSE [hp_enum EXCEPT
                  !.at = "walk",
                  !.new_vertices = [i \in 1..(rank - 3) |->
                                      IF i - 1 < u THEN hp_enum.new_vertices[i]
                                      ELSE NewVertex(u) + 1 + (i - 1 - u)],
                  !.update = rank - 4]
  /\ UNCHANGED <<searchVars, orbitVars, sortVars, pc>>
  /\ UNCHANGED <<gen_iter, yielded, queued, dyad, request, shape, runs>>
  /\ UNCHANGED <<products, bsearch, ridge_orbits, stabilizer>>

NextTuples == EnterPair \/ WalkTuple \/ IncrementTuple

\* every rank from 3, every count of points from the rank, every pair and
\* every set of vertices outside the window
InitTuples ==
  /\ pc = "tuples"
  /\ cfg = <<>> /\ tab = <<>>
  /\ NoSearch /\ NoOrbits /\ NoSort
  /\ NoGenIter /\ dyad = <<>> /\ request = <<>> /\ NoHash
  /\ products = <<>> /\ bsearch = <<>> /\ ridge_orbits = <<>> /\ stabilizer = <<>>
  /\ \E rank \in 3..MaxEnumRank : \E n \in rank..MaxEnumVerts :
       \E b \in 1..(n - 1) : \E a \in 0..(b - 1) : \E far \in SUBSET ((b + 1)..(n - 1)) :
         hp_enum = [rank |-> rank, total_vert_count |-> n, rep |-> <<a, b>>,
                    far |-> far, new_vertices |-> <<>>, update |-> 0,
                    at |-> "pair", tested |-> <<>>, visited |-> <<>>]

SpecTuples == InitTuples /\ [][NextTuples]_vars /\ WF_vars(NextTuples)

\* the strictly increasing tuples of k vertices above lo and below n
IncreasingTuples(lo, n, k) ==
  {t \in [1..k -> (lo + 1)..(n - 1)] : \A i \in 1..(k - 1) : t[i] < t[i + 1]}

\* lexicographic order of tuples of one length
LexBefore(s, t) ==
  \E i \in 1..Len(s) : s[i] < t[i] /\ \A j \in 1..(i - 1) : s[j] = t[j]

TupleInBounds ==
  hp_enum.at \in {"walk", "increment"} =>
    hp_enum.new_vertices \in
      IncreasingTuples(hp_enum.rep[2], hp_enum.total_vert_count, hp_enum.rank - 3)

TestedInOrder ==
  \A i \in 1..(Len(hp_enum.tested) - 1) :
    LexBefore(hp_enum.tested[i], hp_enum.tested[i + 1])

OnlyFarSkipped ==
  /\ \A i \in 1..Len(hp_enum.visited) :
       \A j \in 1..Len(hp_enum.visited[i]) : hp_enum.visited[i][j] \notin hp_enum.far
  /\ (hp_enum.at = "done"
        /\ hp_enum.rep[2] + hp_enum.rank - 2 <= hp_enum.total_vert_count) =>
       \A t \in IncreasingTuples(hp_enum.rep[2], hp_enum.total_vert_count,
                                 hp_enum.rank - 3) :
         \/ t \in SetOf(hp_enum.visited)
         \/ \E i \in 1..Len(hp_enum.tested) : \E j \in 1..Len(t) :
              /\ hp_enum.tested[i][j] \in hp_enum.far
              /\ \A k \in 1..j : hp_enum.tested[i][k] = t[k]

\* C23: for every root pair the added vertices are at all times strictly
\* increasing, above the larger vertex of the pair and below the count of
\* vertices, no index being out of bounds; the tuples are tested in increasing
\* lexicographic order, each at most once; a tuple is skipped only when it
\* shares with a tested tuple a prefix ending in a vertex outside the
\* edge-length window; and the loop terminates.
TuplesWalkedInOrder ==
  /\ [](hp_enum.at # "panic" /\ TupleInBounds /\ TestedInOrder /\ OnlyFarSkipped)
  /\ <>(hp_enum.at = "done")

\* a finished walk at rank 6 that skipped tuples at the first and at a later
\* position and visited others
TuplesWalkedInOrderWitness ==
  /\ hp_enum.at = "done" /\ hp_enum.rank = 6
  /\ Len(hp_enum.visited) >= 2
  /\ \E i \in 1..Len(hp_enum.tested) : hp_enum.tested[i][1] \in hp_enum.far
  /\ \E i \in 1..Len(hp_enum.tested) :
       hp_enum.tested[i][1] \notin hp_enum.far /\ hp_enum.tested[i][2] \in hp_enum.far

\* ------------------------------------- the orbits of the hyperplanes
\* The three enumerations of hyperplane orbits, run on points with integer
\* coordinates in 3 dimensions (rank 4) with the edge-length and inradius
\* windows off. Vertices are numbered from 1; a sorted list of vertices is a
\* sequence in ascending order.
Minus(p, q) == <<p[1] - q[1], p[2] - q[2], p[3] - q[3]>>
Dot(p, q) == p[1] * q[1] + p[2] * q[2] + p[3] * q[3]
Cross(p, q) ==
  <<p[2] * q[3] - p[3] * q[2], p[3] * q[1] - p[1] * q[3], p[1] * q[2] - p[2] * q[1]>>

Octahedron ==
  << <<1, 0, 0>>, <<-1, 0, 0>>, <<0, 1, 0>>, <<0, -1, 0>>, <<0, 0, 1>>, <<0, 0, -1>> >>
Tetrahedron == << <<1, 1, 1>>, <<1, -1, -1>>, <<-1, 1, -1>>, <<-1, -1, 1>> >>
Pyramid ==
  << <<1, 1, -1>>, <<-1, 1, -1>>, <<-1, -1, -1>>, <<1, -1, -1>>, <<0, 0, 2>> >>

Solids == {Octahedron, Tetrahedron, Pyramid}

\* the rows that are symmetries of the points
Symmetries(P) ==
  {r \in Rows(Len(P)) :
     \A i, j \in 1..Len(P) : Dot(P[r[i]], P[r[j]]) = Dot(P[i], P[j])}

ComposeRows(p, q) == [i \in DOMAIN p |-> p[q[i]]]

RECURSIVE GroupOf(_, _)
GroupOf(S, g) ==
  LET T == S \cup {ComposeRows(g, s) : s \in S}
  IN IF T = S THEN S ELSE GroupOf(T, g)

RowBefore(r, t) ==
  \E i \in DOMAIN r : r[i] < t[i] /\ \A j \in 1..(i - 1) : r[j] = t[j]

RECURSIVE RowList(_)
RowList(S) ==
  IF S = {} THEN <<>>
  ELSE LET r == CHOOSE x \in S : \A t \in S : x = t \/ RowBefore(x, t)
       IN <<r>> \o RowList(S \ {r})

\* the vertex maps of a solid: the groups generated by one symmetry, and the
\* group of all symmetries
VertexMaps(P) ==
  {RowList(GroupOf({[i \in 1..Len(P) |-> i]}, g)) : g \in Symmetries(P)}
    \cup {RowList(Symmetries(P))}

\* the items of a list that are not in seen, each once, in order
RECURSIVE Fresh(_, _)
Fresh(list, seen) ==
  IF list = <<>> THEN <<>>
  ELSE IF Head(list) \in seen THEN Fresh(Tail(list), seen)
  ELSE <<Head(list)>> \o Fresh(Tail(list), seen \cup {Head(list)})

\* vertex_orbits
RECURSIVE VertexOrbitsFrom(_, _, _, _)
VertexOrbitsFrom(rows, n, vtx, checked) ==
  IF vtx > n THEN <<>>
  ELSE IF vtx \in checked THEN VertexOrbitsFrom(rows, n, vtx + 1, checked)
  ELSE LET new_orbit == Fresh([i \in 1..Len(rows) |-> rows[i][vtx]], checked)
       IN <<new_orbit>> \o VertexOrbitsFrom(rows, n, vtx + 1, checked \cup SetOf(new_orbit))

\* the pairs (rep, vertex) in the order the two loops meet them
RECURSIVE PairScan(_, _, _)
PairScan(orbits, n, o) ==
  IF o > Len(orbits) THEN <<>>
  ELSE [k \in 1..(n - orbits[o][1]) |-> <<orbits[o][1], orbits[o][1] + k>>]
       \o PairScan(orbits, n, o + 1)

\* pair_orbits
RECURSIVE PairOrbitsFrom(_, _, _, _)
PairOrbitsFrom(rows, scan, k, checked) ==
  IF k > Len(scan) THEN <<>>
  ELSE IF scan[k] \in checked THEN PairOrbitsFrom(rows, scan, k + 1, checked)
  ELSE LET images == [i \in 1..Len(rows) |->
                        LET a1 == rows[i][scan[k][1]]
                            a2 == rows[i][scan[k][2]]
                        IN <<Min(a1, a2), IF a1 < a2 THEN a2 ELSE a1>>]
           new_orbit == Fresh(images, checked)
       IN <<new_orbit>> \o PairOrbitsFrom(rows, scan, k + 1, checked \cup SetOf(new_orbit))

\* the tuples rep + new_vertex of the pair orbits from the o-th on
RECURSIVE TuplesFrom(_, _, _)
TuplesFrom(pair_orbits, n, o) ==
  IF o > Len(pair_orbits) THEN <<>>
  ELSE LET rep == pair_orbits[o][1]
       IN [k \in 1..(n - rep[2]) |-> <<rep[1], rep[2], rep[2] + k>>]
          \o TuplesFrom(pair_orbits, n, o + 1)

\* the vertices of S in ascending order
RECURSIVE Ascending(_)
Ascending(S) ==
  IF S = {} THEN <<>>
  ELSE LET m == CHOOSE x \in S : \A y \in S : x <= y
       IN <<m>> \o Ascending(S \ {m})

\* the lists of the BTreeMap of one vertex: the vertices of equal dot product
\* with the point of rep, in ascending order of the dot product
RECURSIVE LevelLists(_, _, _)
LevelLists(P, rep, dots) ==
  IF dots = {} THEN <<>>
  ELSE LET d == CHOOSE x \in dots : \A y \in dots : x <= y
       IN <<Ascending({i \in 1..Len(P) : Dot(P[i], P[rep]) = d})>>
          \o LevelLists(P, rep, dots \ {d})

Levels(P, rep) == LevelLists(P, rep, {Dot(P[i], P[rep]) : i \in 1..Len(P)})

\* Subspace::from_points(...).is_hyperplane() for a list of points of a plane
\* or of a line
IsHyperplane(P, list) ==
  \E a, b, c \in SetOf(list) :
    Cross(Minus(P[b], P[a]), Minus(P[c], P[a])) # <<0, 0, 0>>

\* hyperplane_vertices: the vertices at distance 0 from the plane of the list
HyperplaneVertices(P, list) ==
  LET abc == CHOOSE t \in SetOf(list) \X SetOf(list) \X SetOf(list) :
               Cross(Minus(P[t[2]], P[t[1]]), Minus(P[t[3]], P[t[1]])) # <<0, 0, 0>>
      normal == Cross(Minus(P[abc[2]], P[abc[1]]), Minus(P[abc[3]], P[abc[1]]))
  IN Ascending({i \in 1..Len(P) : Dot(normal, Minus(P[i], P[abc[1]])) = 0})

ImageList(row, hp_v) == [i \in 1..Len(hp_v) |-> row[hp_v[i]]]

\* the rows' images of hyperplane_vertices whose sorted form is not in
\* checked, each form once (new_orbit_vertices)
RECURSIVE NewOrbitVertices(_, _, _)
NewOrbitVertices(hp_v, i, checked) ==
  IF i > Len(vertex_map) THEN <<>>
  ELSE LET new_hp_v == ImageList(vertex_map[i], hp_v)
           sorted == SortNat(new_hp_v)
       IN IF sorted \in checked THEN NewOrbitVertices(hp_v, i + 1, checked)
          ELSE <<new_hp_v>> \o NewOrbitVertices(hp_v, i + 1, checked \cup {sorted})

\* the loop over the rows of the top-level strategies: is_new and counting
RECURSIVE CountImages(_, _, _, _)
CountImages(hp_v, i, checked, counting) ==
  IF i > Len(vertex_map) THEN [is_new |-> TRUE, counting |-> counting]
  ELSE LET new_hp_v == SortNat(ImageList(vertex_map[i], hp_v))
       IN IF new_hp_v \in checked THEN [is_new |-> FALSE, counting |-> counting]
          ELSE CountImages(hp_v, i + 1, checked, counting \cup {new_hp_v})

PlanesIdle ==
  /\ UNCHANGED <<searchVars, orbitVars, sortVars, pc>>
  /\ UNCHANGED <<gen_iter, yielded, queued, dyad, request, shape, runs>>
  /\ UNCHANGED <<products, bsearch, ridge_orbits, stabilizer>>

\* the vertex orbits, the pair orbits and the lists to try
StartPlanes ==
  /\ pc = "planes" /\ hp_enum.at = "start"
  /\ LET P == hp_enum.points
         n == Len(P)
         vertex_orbits_ == VertexOrbitsFrom(vertex_map, n, 1, {})
         pair_orbits == PairOrbitsFrom(vertex_map, PairScan(vertex_orbits_, n, 1), 1, {})
         levels == [o \in 1..Len(vertex_orbits_) |-> Levels(P, vertex_orbits_[o][1])]
     IN hp_enum' =
          IF hp_enum.strategy = "below"
          THEN [hp_enum EXCEPT !.at = "emit", !.candidates = levels[1],
                               !.later = Tail(levels)]
          ELSE [hp_enum EXCEPT !.at = "emit",
                               !.candidates = TuplesFrom(pair_orbits, n, 1)]
  /\ PlanesIdle

\* faceting_subdim: one tuple of the recursive enumerator
EmitSubdim ==
  /\ pc = "planes" /\ hp_enum.at = "emit" /\ hp_enum.strategy = "subdim"
  /\ hp_enum.candidates # <<>>
  /\ LET list == Head(hp_enum.candidates)
         hp_v == HyperplaneVertices(hp_enum.points, list)
         new_orbit_vertices == NewOrbitVertices(hp_v, 1, hp_enum.checked)
     IN hp_enum' =
          IF IsHyperplane(hp_enum.points, list) /\ hp_v \notin hp_enum.checked
          THEN [hp_enum EXCEPT
                  !.candidates = Tail(@),
                  !.checked = @ \cup {SortNat(new_orbit_vertices[k]) :
                                        k \in 1..Len(new_orbit_vertices)},
                  !.records = Append(@, [vertices |-> SortNat(new_orbit_vertices[1]),
                                         size |-> Len(new_orbit_vertices)])]
          ELSE [hp_enum EXCEPT !.candidates = Tail(@)]
  /\ PlanesIdle

\* the record of a top-level strategy for one list of vertices
TopRecord(list) ==
  LET hp_v == HyperplaneVertices(hp_enum.points, list)
      seen == CountImages(hp_v, 1, hp_enum.checked, {})
  IN IF IsHyperplane(hp_enum.points, list) /\ seen.is_new
     THEN [hp_enum EXCEPT
             !.candidates = Tail(@),
             !.checked = @ \cup {hp_v},
             !.records = Append(@, [vertices |-> hp_v,
                                    size |-> Cardinality(seen.counting)])]
     ELSE [hp_enum EXCEPT !.candidates = Tail(@)]

\* Concrete::faceting, general strategy: one tuple rep + new_vertex
EmitGeneral ==
  /\ pc = "planes" /\ hp_enum.at = "emit" /\ hp_enum.strategy = "general"
  /\ hp_enum.candidates # <<>>
  /\ hp_enum' = TopRecord(Head(hp_enum.candidates))
  /\ PlanesIdle

\* Concrete::faceting, only_below_vertex: one list of the map of a vertex
EmitBelow ==
  /\ pc = "planes" /\ hp_enum.at = "emit" /\ hp_enum.strategy = "below"
  /\ hp_enum.candidates # <<>>
  /\ hp_enum' = TopRecord(Head(hp_enum.candidates))
  /\ PlanesIdle

\* only_below_vertex: the next vertex orbit, with 'let mut checked = HashSet::new()'
NextVertexOrbit ==
  /\ pc = "planes" /\ hp_enum.at = "emit" /\ hp_enum.strategy = "below"
  /\ hp_enum.candidates = <<>> /\ hp_enum.later # <<>>
  /\ hp_enum' = [hp_enum EXCEPT !.candidates = Head(hp_enum.later),
                                !.later = Tail(hp_enum.later),
                                !.checked = {}]
  /\ PlanesIdle

EndPlanes ==
  /\ pc = "planes" /\ hp_enum.at = "emit"
  /\ hp_enum.candidates = <<>> /\ hp_enum.later = <<>>
  /\ hp_enum' = [hp_enum EXCEPT !.at = "done"]
  /\ PlanesIdle

NextPlanes ==
  \/ StartPlanes
  \/ EmitSubdim
  \/ EmitGeneral
  \/ EmitBelow
  \/ NextVertexOrbit
  \/ EndPlanes

InitPlanes ==
  /\ pc = "planes"
  /\ cfg = <<>> /\ tab = <<>>
  /\ NoSearch /\ NoSort
  /\ NoGenIter /\ dyad = <<>> /\ request = <<>> /\ NoHash
  /\ products = <<>> /\ bsearch = <<>> /\ ridge_orbits = <<>> /\ stabilizer = <<>>
  /\ vertex_orbits = <<>> /\ orbit_of_vertex = <<>>
  /\ checked_vertices = <<>> /\ orbit_idx = 0 /\ v = 0
  /\ \E P \in Solids : \E rows \in VertexMaps(P) :
       \E strategy \in {"subdim", "general", "below"} :
         /\ vertex_map = rows
         /\ hp_enum = [strategy |-> strategy, points |-> P, at |-> "start",
                       candidates |-> <<>>, later |-> <<>>, checked |-> {},
                       records |-> <<>>]

SpecPlanes == InitPlanes /\ [][NextPlanes]_vars

\* the sorted images of a sorted list of vertices under the rows
ImagesOf(hp_v) ==
  {SortNat(ImageList(vertex_map[i], hp_v)) : i \in 1..Len(vertex_map)}

NoRecordTwice ==
  \A i, j \in 1..Len(hp_enum.records) :
    i # j => hp_enum.records[j].vertices \notin ImagesOf(hp_enum.records[i].vertices)

SizeIsOrbit ==
  \A i \in 1..Len(hp_enum.records) :
    hp_enum.records[i].size = Cardinality(ImagesOf(hp_enum.records[i].vertices))

\* C22: each of the three enumerations gives one record to an orbit of
\* hyperplanes: no two records have vertex sets that are images of one
\* another under a row of the vertex map, and the size of a record is the
\* number of distinct images of its vertex set under the rows.
OneRecordPerOrbit == pc = "planes" => NoRecordTwice /\ SizeIsOrbit

\* the same for the recursive enumerator and the general strategy
OneRecordPerOrbitByTuples ==
  (pc = "planes" /\ hp_enum.strategy # "below") => NoRecordTwice /\ SizeIsOrbit

\* the sizes are right in the only-below-vertex strategy too
SizeIsOrbitBelow == (pc = "planes" /\ hp_enum.strategy = "below") => SizeIsOrbit

\* finished enumerations by tuples with several records, one of an orbit of
\* several hyperplanes
OneRecordPerOrbitByTuplesWitness ==
  /\ pc = "planes" /\ hp_enum.at = "done" /\ hp_enum.strategy # "below"
  /\ Len(vertex_map) > 1
  /\ Len(hp_enum.records) >= 2
  /\ \E i \in 1..Len(hp_enum.records) : hp_enum.records[i].size > 1

\* ------------------------------------------- the stabilizer of a hyperplane
\* The rows passed down with a hyperplane, by Concrete::faceting and then by
\* faceting_subdim for a hyperplane of that hyperplane. Vertices and local
\* indices are numbered from 1.
MaxStabVerts == 4

\* the indices of the rows whose sorted slice is hp_v
KeptRows(rows, hp_v) ==
  {a \in 1..Len(rows) : SortNat(ImageList(rows[a], hp_v)) = hp_v}

\* local indices taken from the sorted list of the vertices
MapBackSorted(first, el) == Position(SortNat(first), el, 1)

\* map_back: the index at which the first row of the stabilizer has el
MapBack(first, el) ==
  CHOOSE idx \in 1..Len(first) :
    first[idx] = el /\ \A j \in (idx + 1)..Len(first) : first[j] # el

\* stabilizer, the rows it comes from, and new_stabilizer
Stabilize(rows, hp_v) ==
  LET kept == Ascending(KeptRows(rows, hp_v))
      slices == [a \in 1..Len(kept) |-> ImageList(rows[kept[a]], hp_v)]
  IN [kept |-> kept,
      stabilizer |-> slices,
      new_stabilizer |->
        [a \in 1..Len(slices) |->
           [b \in 1..Len(slices[a]) |-> MapBack(slices[1], slices[a][b])]]]

StabIdle ==
  /\ UNCHANGED <<searchVars, sortVars, pc>>
  /\ UNCHANGED <<vertex_orbits, orbit_of_vertex, checked_vertices, orbit_idx, v>>
  /\ UNCHANGED <<gen_iter, yielded, queued, dyad, request, shape, runs>>
  /\ UNCHANGED <<products, bsearch, hp_enum, ridge_orbits>>

\* for orbit in hyperplane_orbits: the stabilizer of its first hyperplane;
\* stabilizer[0] of an empty stabilizer panics
StabilizeHyperplane ==
  /\ pc = "stab" /\ stabilizer.at = "start"
  /\ LET s == Stabilize(vertex_map, stabilizer.hp_v)
     IN stabilizer' =
          IF s.kept = <<>> THEN [stabilizer EXCEPT !.at = "panic"]
          ELSE [stabilizer EXCEPT !.at = "passed", !.kept = s.kept,
                                  !.stabilizer = s.stabilizer,
                                  !.new_stabilizer = s.new_stabilizer]
  /\ UNCHANGED vertex_map
  /\ StabIdle

\* the sorted lists of two or more of k vertices
SortedLists(k) ==
  {Ascending(S) : S \in {T \in SUBSET (1..k) : Cardinality(T) >= 2}}

\* the call of faceting_subdim with new_stabilizer, up to a hyperplane of the
\* call: hp_v is then the first image of its vertices, that under the first row
Descend ==
  /\ pc = "stab" /\ stabilizer.at = "passed" /\ stabilizer.level = "top"
  /\ Len(stabilizer.hp_v) >= 3
  /\ vertex_map' = stabilizer.new_stabilizer
  /\ \E hp_vertices \in SortedLists(Len(stabilizer.hp_v)) :
       stabilizer' = [level |-> "subdim", at |-> "start",
                      hp_v |-> ImageList(vertex_map'[1], hp_vertices),
                      kept |-> <<>>, stabilizer |-> <<>>, new_stabilizer |-> <<>>]
  /\ StabIdle

NextStab == StabilizeHyperplane \/ Descend

\* lists of rows with the identity among them
WithIdentity(n) ==
  {rows \in UNION {[1..k -> Rows(n)] : k \in 1..MaxRows} :
     \E a \in 1..Len(rows) : rows[a] = [i \in 1..n |-> i]}

InitStab ==
  /\ pc = "stab"
  /\ cfg = <<>> /\ tab = <<>>
  /\ NoSearch /\ NoSort
  /\ NoGenIter /\ dyad = <<>> /\ request = <<>> /\ NoHash
  /\ products = <<>> /\ bsearch = <<>> /\ hp_enum = <<>> /\ ridge_orbits = <<>>
  /\ vertex_orbits = <<>> /\ orbit_of_vertex = <<>>
  /\ checked_vertices = <<>> /\ orbit_idx = 0 /\ v = 0
  /\ \E n \in 3..MaxStabVerts : \E rows \in WithIdentity(n) :
       \E hp_v \in SortedLists(n) :
         /\ vertex_map = rows
         /\ stabilizer = [level |-> "top", at |-> "start", hp_v |-> hp_v,
                          kept |-> <<>>, stabilizer |-> <<>>, new_stabilizer |-> <<>>]

SpecStab == InitStab /\ [][NextStab]_vars

IsPermutationOf(row, k) ==
  Len(row) = k /\ \A i \in 1..k : \E b \in 1..k : row[b] = i

\* the rows passed down are some, each a permutation of the local indices
StabilizerIsGiven ==
  /\ stabilizer.at # "panic"
  /\ stabilizer.at = "passed" =>
       /\ stabilizer.new_stabilizer # <<>>
       /\ \A a \in 1..Len(stabilizer.new_stabilizer) :
            IsPermutationOf(stabilizer.new_stabilizer[a], Len(stabilizer.hp_v))

\* the global row of the a-th row passed down
GlobalRow(a) == vertex_map[stabilizer.kept[a]]

MaxRidgeList == 3

\* the image of a ridge under a row, as it is before the sort
RidgeImage(ridge, row) == [ridge EXCEPT ![3] = MapEdges(ridge[3], row)]

\* for row in &vertex_map of faceting_subdim: the sorted images that are no
\* keys yet are inserted with orbit_idx and counted
RECURSIVE InsertImages(_, _, _, _)
InsertImages(ridge, i, map, count) ==
  IF i > Len(vertex_map) THEN [map |-> map, count |-> count]
  ELSE LET new_ridge == element_sort_strong(RidgeImage(ridge, vertex_map[i]))
       IN IF \E e \in map : e.ridge = new_ridge
          THEN InsertImages(ridge, i + 1, map, count)
          ELSE InsertImages(ridge, i + 1,
                            map \cup {[ridge |-> new_ridge, idx |-> ridge_orbits.orbit_idx]},
                            count + 1)

\* a search that looks up the ridge alone, none of its images
FindImageItself(ridge, i) ==
  IF \E e \in ridge_orbits.map : e.ridge = ridge
  THEN Some((CHOOSE e \in ridge_orbits.map : e.ridge = ridge).idx)
  ELSE None

\* for row in &vertex_map of Concrete::faceting: the index of the first sorted
\* image that is a key, or None
RECURSIVE FindImage(_, _)
FindImage(ridge, i) ==
  IF i > Len(vertex_map) THEN None
  ELSE LET new_ridge == element_sort_strong(RidgeImage(ridge, vertex_map[i]))
       IN IF \E e \in ridge_orbits.map : e.ridge = new_ridge
          THEN Some((CHOOSE e \in ridge_orbits.map : e.ridge = new_ridge).idx)
          ELSE FindImage(ridge, i + 1)

\* the set that counts the ridges of the orbit in Concrete::faceting
CountingSet(ridge) ==
  {element_sort_strong(RidgeImage(ridge, vertex_map[i])) : i \in 1..Len(vertex_map)}

RidgesIdle ==
  /\ UNCHANGED <<searchVars, orbitVars, sortVars, pc>>
  /\ UNCHANGED <<gen_iter, yielded, queued, dyad, request, shape, runs>>
  /\ UNCHANGED <<products, bsearch, hp_enum, stabilizer>>

\* the ridge made global and sorted
SortedGlobal(item) == element_sort_strong(Globalise(item.ridge, item.hp_v))

\* faceting_subdim: one ridge
IndexRidgeSubdim ==
  /\ pc = "ridges" /\ ridge_orbits.level = "subdim"
  /\ ridge_orbits.todo # <<>>
  /\ LET item == Head(ridge_orbits.todo)
         ridge == SortedGlobal(item)
         added == InsertImages(ridge, 1, ridge_orbits.map, 0)
     IN ridge_orbits' =
          IF \E e \in ridge_orbits.map : e.ridge = ridge
          THEN [ridge_orbits EXCEPT
                  !.todo = Tail(@), !.seen = Append(@, item),
                  !.ids = Append(@, (CHOOSE e \in ridge_orbits.map : e.ridge = ridge).idx)]
          ELSE [ridge_orbits EXCEPT
                  !.todo = Tail(@), !.seen = Append(@, item),
                  !.map = added.map,
                  !.ids = Append(@, ridge_orbits.orbit_idx),
                  !.ridge_counts = Append(@, added.count),
                  !.orbit_idx = @ + 1]
  /\ RidgesIdle

\* Concrete::faceting: one ridge
IndexRidgeTop ==
  /\ pc = "ridges" /\ ridge_orbits.level = "top"
  /\ ridge_orbits.todo # <<>>
  /\ LET item == Head(ridge_orbits.todo)
         ridge == SortedGlobal(item)
         found == FindImage(ridge, 1)
     IN ridge_orbits' =
          IF found # None
          THEN [ridge_orbits EXCEPT
                  !.todo = Tail(@), !.seen = Append(@, item),
                  !.ids = Append(@, found[1])]
          ELSE [ridge_orbits EXCEPT
                  !.todo = Tail(@), !.seen = Append(@, item),
                  !.map = @ \cup {[ridge |-> ridge, idx |-> ridge_orbits.orbit_idx]},
                  !.ids = Append(@, ridge_orbits.orbit_idx),
                  !.ridge_counts = Append(@, Cardinality(CountingSet(ridge))),
                  !.orbit_idx = @ + 1]
  /\ RidgesIdle

NextRidges == IndexRidgeSubdim \/ IndexRidgeTop

RECURSIVE GroupOfTwo(_, _, _)
GroupOfTwo(S, g, h) ==
  LET T == S \cup {ComposeRows(g, s) : s \in S} \cup {ComposeRows(h, s) : s \in S}
  IN IF T = S THEN S ELSE GroupOfTwo(T, g, h)

\* the groups of rows of n vertices, as sets
Groups(n) == {GroupOfTwo({[i \in 1..n |-> i]}, g, h) : g, h \in Rows(n)}

Backwards(s) == [i \in 1..Len(s) |-> s[Len(s) + 1 - i]]

\* a segment of a hyperplane with its vertices in either order, or a triangle
SegmentItems(n) ==
  {[hp_v |-> hp_v, ridge |-> Segment(<<a, b>>)] :
     hp_v \in SortedLists(n), a \in 1..n, b \in 1..n}

RidgeItems(n) ==
  IF n = 3
  THEN {it \in SegmentItems(3) :
          /\ it.ridge[3][1].subs[1] # it.ridge[3][1].subs[2]
          /\ \A k \in 1..2 : it.ridge[3][1].subs[k] <= Len(it.hp_v)}
  ELSE {[hp_v |-> hp_v, ridge |-> Triangle(t)] :
          hp_v \in {l \in SortedLists(4) : Len(l) >= 3},
          t \in {u \in Triples : u[3] <= 3}}
       \cup {[hp_v |-> <<1, 2, 3, 4>>, ridge |-> Triangle(t)] : t \in Triples}

InitRidges ==
  /\ pc = "ridges"
  /\ cfg = <<>> /\ tab = <<>>
  /\ NoSearch /\ NoSort
  /\ NoGenIter /\ dyad = <<>> /\ request = <<>> /\ NoHash
  /\ products = <<>> /\ bsearch = <<>> /\ hp_enum = <<>> /\ stabilizer = <<>>
  /\ vertex_orbits = <<>> /\ orbit_of_vertex = <<>>
  /\ checked_vertices = <<>> /\ orbit_idx = 0 /\ v = 0
  /\ \E n \in 3..4 : \E G \in Groups(n) : \E level \in {"subdim", "top"} :
       \E len \in 1..(IF n = 3 THEN MaxRidgeList ELSE MaxRidgeList - 1) :
         \E todo \in [1..len -> RidgeItems(n)] :
           /\ vertex_map \in {RowList(G)} \cup
                             (IF level = "top" THEN {Backwards(RowList(G))} ELSE {})
           /\ ridge_orbits = [level |-> level, todo |-> todo, seen |-> <<>>,
                              map |-> {}, ids |-> <<>>, ridge_counts |-> <<>>,
                              orbit_idx |-> 0]

SpecRidges == InitRidges /\ [][NextRidges]_vars

\* the sorted forms of the images of the i-th ridge met, taken from the ridge
\* as it came
CanonicalImages(i) ==
  LET global == Globalise(ridge_orbits.seen[i].ridge, ridge_orbits.seen[i].hp_v)
  IN {element_sort_strong(RidgeImage(global, vertex_map[a])) : a \in 1..Len(vertex_map)}

CanonicalForm(i) == element_sort_strong(Globalise(ridge_orbits.seen[i].ridge, ridge_orbits.seen[i].hp_v))

\* C24: for a vertex map that is a group two ridges get the same ridge-orbit
\* id exactly when the canonical form of one is the canonical form of an
\* image of the other under some row; new ids are given densely in the order
\* of first appearance; and the count kept for an id is the number of
\* distinct canonical images of its ridge under the rows.
RidgeOrbitsExact ==
  pc = "ridges" =>
    LET ids == ridge_orbits.ids IN
      /\ \A i, j \in 1..Len(ids) :
           ids[i] = ids[j] <=> CanonicalForm(j) \in CanonicalImages(i)
      /\ \A i \in 1..Len(ids) :
           \/ \E j \in 1..(i - 1) : ids[j] = ids[i]
           \/ ids[i] = Cardinality({ids[j] : j \in 1..(i - 1)})
      /\ Len(ridge_orbits.ridge_counts) = Cardinality({ids[j] : j \in 1..Len(ids)})
      /\ \A i \in 1..Len(ids) :
           ridge_orbits.ridge_counts[ids[i] + 1] = Cardinality(CanonicalImages(i))

\* three ridges met, the first two of one orbit of several ridges without
\* being equal, the third of another orbit
RidgeOrbitsExactWitness ==
  /\ pc = "ridges" /\ ridge_orbits.todo = <<>>
  /\ Len(ridge_orbits.ids) = 3
  /\ ridge_orbits.ids = <<0, 0, 1>>
  /\ CanonicalForm(1) # CanonicalForm(2)
  /\ ridge_orbits.ridge_counts[1] > 1
  /\ vertex_map[1] # [i \in 1..Len(vertex_map[1]) |-> i]

====
